---- MODULE Spec2Model ----
(***************************************************************************)
(* A model of the X/Jule front end: the lexer (lex), the asynchronous      *)
(* parser (parser/parser.go) and the expression evaluator (sema/eval.go).  *)
(* Each part has its own specification over its own variables; the other   *)
(* variables are idle (they keep the value Init gives them).               *)
(***************************************************************************)
EXTENDS Integers, Sequences, FiniteSets, Bags, TLC

VARIABLES
    \* ---- lex.Lex (src/unnamed/part_000)
    Content,        \* l.File.Content, the source, a sequence of characters
    Position,       \* l.Position, 0-based offset into Content
    Column,         \* l.Column
    Line,           \* l.Line
    Errors,         \* l.Errors
    tokens,         \* the tokens Tokenize has collected so far
    \* ---- parser.Parser (src/parser/parser.go), the statement checker
    fun,            \* the ast.Func under check: [RetType, Block]
    iterCount,      \* p.iterCount
    Logs,           \* p.PFI.Logs, the diagnostic sink
    spawned,        \* the check tasks the driver has started with `go`
    pcFunc,         \* where the check of fun (or of assign) stands
    \* ---- parser.Parser, the symbol tables
    Types,          \* p.Types
    Funcs,          \* p.Funcs
    GlobalVars,     \* p.GlobalVars
    waitingGlobalVars,  \* p.waitingGlobalVars
    BlockVars,      \* p.BlockVars
    \* ---- parser.Parser, the assignment checker
    assign,         \* the ast.Assign under check
    \* ---- parser.Parser, Parse's loop over the declarations
    Tree,           \* builder.Tree, the top-level objects: [kind, Id]
    objIndex,       \* how many objects of Tree the loop has gone through
    \* ---- parser.Parser, the check tasks of Parse
    justDefs,       \* p.justDefs
    wg,             \* the counter of p.wg, the wait group
    tasks,          \* the bag of the running tasks (goroutines)
    pushed,         \* the bag of the diagnostics handed to pusherrtok/pusherr
    \* ---- parser.Parser, the call checker
    call,           \* the call under check: [params, args]
    \* ---- parser.Parser, the resolution of types
    dtype,          \* the ast.DataType to resolve
    resolved,       \* what readyType returned, call after call
    arrays,         \* the backing arrays of the Params slices of function types
    \* ---- parser.Parser, the evaluation of operators
    processes,      \* the processes of the expression: operands and operators
    operator,       \* what nextOperator returned, -2 before the call
    result,         \* v.ast of evalProcesses: [Code, Token]
    solved,         \* the calls of solver.Solve: [Kind, Pos, left, right]
    \* ---- parser.solver (src/parser/parser.go), one operator and its operands
    solver,         \* the solver: [operator, leftVal, rightVal]
    solution,       \* what Solve did: [v, handler, Logs, done]
    \* ---- parser.Parser, one check of a type against a type
    checking,       \* the check: [real, check, events, done]
    \* ---- sema, the variables of the symbol table
    symbols,        \* the stored TypeKind of every variable, by identifier
    seen,           \* the kinds eval has returned for the bare identifier
    \* ---- sema.Fn (src/unnamed/part_004)
    function,       \* the Fn: [Generics, Combines], Generics the number of generics
    history,        \* the calls made on the Fn, the last one last
    \* ---- sema._Eval, slice literals and namespace selections
    evaluator,      \* the fields of e: [prefix, lookup]
    literal,        \* the expression: [kind, Elems, Ns, Ident]
    atEntry,        \* evaluator and literal before the first evaluation
    runs,           \* what each evaluation returned and pushed: [kind, errors]
    \* ---- sema._Eval (src/src/sema/eval.go)
    Expr,           \* the ast.Expr to evaluate: [leaf, ops], ops outermost first
    data,           \* what eval returned: [nil, d]
    errors,         \* e.s.errors, the keys pushed
    unsafety,       \* e.unsafety
    pcEval          \* where the evaluation stands

lexVars == <<Content, Position, Column, Line, Errors, tokens>>
funVars == <<fun, iterCount>>
sinkVars == <<Logs, spawned, pcFunc>>
tableVars == <<Types, Funcs, GlobalVars, waitingGlobalVars, BlockVars>>
assignVars == <<assign>>
declVars == <<Tree, objIndex>>
evalVars == <<Expr, data, errors, unsafety, pcEval>>
parVars == <<justDefs, wg, tasks, pushed>>
callVars == <<call>>
typeVars == <<dtype, resolved, arrays>>
procVars == <<processes, operator, result, solved>>

solveVars == <<solver, solution>>

multiVars == <<checking>>

symVars == <<symbols, seen>>

litVars == <<evaluator, literal, atEntry, runs>>

fnVars == <<function, history>>

vars == <<lexVars, funVars, sinkVars, tableVars, assignVars, declVars, evalVars,
          parVars, callVars, typeVars, procVars, solveVars, multiVars, symVars, litVars, fnVars>>

\* ------------------------------------------------------------------------
\* Each part of the front end at rest
\* ------------------------------------------------------------------------
LexStart ==
    /\ Position = 0
    /\ Column = 1
    /\ Line = 1
    /\ Errors = <<>>
    /\ tokens = <<>>

\* The lexer when no source is being tokenized.
LexIdle ==
    /\ Content = <<>>
    /\ LexStart

\* The statement checker before it is given a function.
FuncIdle ==
    /\ fun = [RetType |-> [Code |-> "Void", MultiTyped |-> FALSE, Tag |-> <<>>,
                           Value |-> <<>>],
              Block |-> <<>>]
    /\ iterCount = 0

SinkIdle ==
    /\ Logs = <<>>
    /\ spawned = <<>>
    /\ pcFunc = "idle"

TablesIdle ==
    /\ Types = <<>>
    /\ Funcs = <<>>
    /\ GlobalVars = <<>>
    /\ waitingGlobalVars = <<>>
    /\ BlockVars = <<>>

AssignIdle == assign = [Setter |-> "=", JustDeclare |-> FALSE,
                        SelectExprs |-> <<>>, ValueExprs |-> <<>>]

DeclIdle ==
    /\ Tree = <<>>
    /\ objIndex = 0

\* A Data of the evaluator; Kind is the name of its type kind.
Data(Kind, Mutable, Lvalue, Constant, Decl) ==
    [Kind |-> Kind, Mutable |-> Mutable, Lvalue |-> Lvalue, Variadiced |-> FALSE,
     Decl |-> Decl, Constant |-> Constant]

\* eval's result: nil, or the Data d.
NilData == [nil |-> TRUE, d |-> Data("void", FALSE, FALSE, FALSE, FALSE)]

EvalIdle ==
    /\ Expr = [leaf |-> [lit |-> TRUE, v |-> "nil"], ops |-> <<>>]
    /\ data = NilData
    /\ errors = <<>>
    /\ unsafety = FALSE
    /\ pcEval = "idle"

\* No check task has been started.
ParIdle ==
    /\ justDefs = FALSE
    /\ wg = 0
    /\ tasks = EmptyBag
    /\ pushed = EmptyBag

CallIdle == call = [params |-> <<>>, args |-> <<>>]

TypeIdle ==
    /\ dtype = [Code |-> "Void", MultiTyped |-> FALSE, Tag |-> <<>>, Value |-> <<>>]
    /\ resolved = <<>>
    /\ arrays = <<>>

ProcIdle ==
    /\ processes = <<>>
    /\ operator = -2
    /\ result = [Code |-> "Void", Value |-> <<>>, Token |-> <<>>]
    /\ solved = <<>>

SolveIdle ==
    /\ solver = [operator |-> [Kind |-> "", Pos |-> 0], leftVal |-> [Code |-> "Void", Value |-> <<>>, Token |-> <<>>], rightVal |-> [Code |-> "Void", Value |-> <<>>, Token |-> <<>>]]
    /\ solution = [v |-> [Code |-> "Void", Value |-> <<>>, Token |-> <<>>], handler |-> "", Logs |-> <<>>, done |-> FALSE]

MultiIdle ==
    /\ checking = [real |-> [Code |-> "Void", MultiTyped |-> FALSE, Tag |-> <<>>, Value |-> <<>>],
                   check |-> [Code |-> "Void", MultiTyped |-> FALSE, Tag |-> <<>>, Value |-> <<>>],
                   events |-> <<>>, done |-> FALSE]

SymIdle ==
    /\ symbols = <<>>
    /\ seen = <<>>

LitIdle ==
    /\ evaluator = [prefix |-> <<>>, lookup |-> "file"]
    /\ literal = [kind |-> "slice", Elems |-> <<>>, Ns |-> "", Ident |-> ""]
    /\ atEntry = <<>>
    /\ runs = <<>>

FnIdle ==
    /\ function = [Generics |-> 0, Combines |-> <<>>]
    /\ history = <<>>

\* Every part but those named in S is at rest ...
IdleBut(S) ==
    /\ IF "lex" \in S THEN TRUE ELSE LexIdle
    /\ IF "fun" \in S THEN TRUE ELSE FuncIdle
    /\ IF "sink" \in S THEN TRUE ELSE SinkIdle
    /\ IF "tables" \in S THEN TRUE ELSE TablesIdle
    /\ IF "assign" \in S THEN TRUE ELSE AssignIdle
    /\ IF "decl" \in S THEN TRUE ELSE DeclIdle
    /\ IF "eval" \in S THEN TRUE ELSE EvalIdle
    /\ IF "par" \in S THEN TRUE ELSE ParIdle
    /\ IF "call" \in S THEN TRUE ELSE CallIdle
    /\ IF "type" \in S THEN TRUE ELSE TypeIdle
    /\ IF "proc" \in S THEN TRUE ELSE ProcIdle
    /\ IF "fn" \in S THEN TRUE ELSE FnIdle
    /\ IF "lit" \in S THEN TRUE ELSE LitIdle
    /\ IF "sym" \in S THEN TRUE ELSE SymIdle
    /\ IF "multi" \in S THEN TRUE ELSE MultiIdle
    /\ IF "solve" \in S THEN TRUE ELSE SolveIdle

\* ... and stays as it is.
Keep(S) ==
    /\ IF "lex" \in S THEN TRUE ELSE UNCHANGED lexVars
    /\ IF "fun" \in S THEN TRUE ELSE UNCHANGED funVars
    /\ IF "sink" \in S THEN TRUE ELSE UNCHANGED sinkVars
    /\ IF "tables" \in S THEN TRUE ELSE UNCHANGED tableVars
    /\ IF "assign" \in S THEN TRUE ELSE UNCHANGED assignVars
    /\ IF "decl" \in S THEN TRUE ELSE UNCHANGED declVars
    /\ IF "eval" \in S THEN TRUE ELSE UNCHANGED evalVars
    /\ IF "par" \in S THEN TRUE ELSE UNCHANGED parVars
    /\ IF "call" \in S THEN TRUE ELSE UNCHANGED callVars
    /\ IF "type" \in S THEN TRUE ELSE UNCHANGED typeVars
    /\ IF "proc" \in S THEN TRUE ELSE UNCHANGED procVars
    /\ IF "fn" \in S THEN TRUE ELSE UNCHANGED fnVars
    /\ IF "lit" \in S THEN TRUE ELSE UNCHANGED litVars
    /\ IF "sym" \in S THEN TRUE ELSE UNCHANGED symVars
    /\ IF "multi" \in S THEN TRUE ELSE UNCHANGED multiVars
    /\ IF "solve" \in S THEN TRUE ELSE UNCHANGED solveVars

\* ------------------------------------------------------------------------
\* Sequence helpers
\* ------------------------------------------------------------------------
Drop(s, n) == SubSeq(s, n + 1, Len(s))

HasPrefix(s, p) == Len(s) >= Len(p) /\ SubSeq(s, 1, Len(p)) = p

SeqsUpTo(S, n) == UNION {[1..k -> S] : k \in 0..n}

\* ========================================================================
\* LEXER (src/unnamed/part_000)
\* ========================================================================

\* Bounds of the lexer specification.
MaxLen == 3
MaxTokens == 5

\* The characters sources are drawn from.
Alphabet == {"'", "\"", "\\", "\n", " ", "/", "*", ";", "1", "r", "e", "t", "_", "#"}

Digits == {"0", "1", "2", "3", "4", "5", "6", "7", "8", "9"}
OctDigits == {"0", "1", "2", "3", "4", "5", "6", "7"}
HexDigits == Digits \cup {"a", "b", "c", "d", "e", "f", "A", "B", "C", "D", "E", "F"}
Letters == {"a", "b", "c", "d", "e", "f", "n", "r", "t", "v", "x", "u", "U", "E"}

\* unicode.IsSpace and unicode.IsPunct on the ASCII range.
IsSpace(c) == c \in {" ", "\n", "\t", "\r"}
IsPunct(c) == c \in {"!", "\"", "#", "%", "&", "'", "(", ")", "*", ",", "-", ".",
                     "/", ":", ";", "?", "@", "[", "\\", "]", "_", "{", "}"}
IsLetter(c) == c \in Letters

\* The lexer's fields as a record, threaded through the helper functions.
pushError(l, err) ==
    [l EXCEPT !.Errors = Append(@, [key |-> err, line |-> l.Line, col |-> l.Column])]

NewLine(l) == [l EXCEPT !.Line = @ + 1, !.Column = 1]

isKeyword(ln, kw) ==
    /\ HasPrefix(ln, kw)
    /\ LET rest == Drop(ln, Len(kw))
       IN  \/ rest = <<>>
           \/ IsSpace(rest[1])
           \/ IsPunct(rest[1])

\* Number of leading characters of s that are in S.
RECURSIVE CountLeading(_, _)
CountLeading(s, S) ==
    IF s # <<>> /\ s[1] \in S THEN 1 + CountLeading(Tail(s), S) ELSE 0

IsNameChar(c) == c = "_" \/ c \in Digits \/ IsLetter(c)

\* lexName: the name at the head of ln (empty when none) and the advanced lexer.
lexName(l, ln) ==
    IF ln[1] # "_" /\ ~IsLetter(ln[1])
    THEN [l |-> l, v |-> <<>>]
    ELSE LET n == CountLeading(ln, {c \in Alphabet \cup Letters \cup Digits : IsNameChar(c)})
         IN  [l |-> [l EXCEPT !.Position = @ + n], v |-> SubSeq(ln, 1, n)]

\* Length of the match of numericRegexp at the head of s (0 when none).
NumericLen(s) ==
    LET hex == IF HasPrefix(s, <<"0", "x">>) THEN CountLeading(Drop(s, 2), HexDigits) ELSE 0
        d == CountLeading(s, Digits)
        afterD == Drop(s, d)
        fd == IF afterD # <<>> /\ afterD[1] = "." THEN CountLeading(Tail(afterD), Digits) ELSE 0
        frac == IF fd > 0 THEN 1 + fd ELSE 0
        afterF == Drop(s, d + frac)
        sign == IF Len(afterF) >= 2 /\ afterF[2] \in {"-", "+"} THEN 1 ELSE 0
        ed == IF afterF # <<>> /\ afterF[1] \in {"e", "E"}
              THEN CountLeading(Drop(afterF, 1 + sign), Digits) ELSE 0
        exp == IF ed > 0 THEN 1 + sign + ed ELSE 0
    IN  IF hex > 0 THEN 2 + hex
        ELSE IF d = 0 THEN 0
        ELSE d + frac + exp

lexNumeric(l, content) ==
    LET n == NumericLen(content)
    IN  [l |-> [l EXCEPT !.Position = @ + n], v |-> SubSeq(content, 1, n)]

\* Length of the match of escapeSequenceRegexp at the head of s (0 when none);
\* s[1] is a backslash.
NoNewline(s, from, to) == Len(s) >= to /\ \A i \in from..to : s[i] # "\n"

EscapeLen(s) ==
    IF Len(s) < 2 THEN 0
    ELSE LET c == s[2]
         IN  IF c \in {"\\", "'", "\"", "a", "b", "f", "n", "r", "t", "v"} THEN 2
             ELSE IF c = "U" THEN (IF NoNewline(s, 3, 10) THEN 10 ELSE 0)
             ELSE IF c = "u" THEN (IF NoNewline(s, 3, 6) THEN 6 ELSE 0)
             ELSE IF c = "x" THEN (IF NoNewline(s, 3, 4) THEN 4 ELSE 0)
             ELSE IF c \in OctDigits
                  THEN LET k == CountLeading(Tail(s), OctDigits)
                       IN  1 + (IF k > 3 THEN 3 ELSE k)
             ELSE 0

getEscapeSequence(l, content) ==
    LET n == EscapeLen(content)
    IN  IF n > 0
        THEN [l |-> [l EXCEPT !.Position = @ + n], v |-> SubSeq(content, 1, n)]
        ELSE [l |-> pushError([l EXCEPT !.Position = @ + 1], "invalid_escape_sequence"),
              v |-> <<>>]

getRune(l, content) ==
    IF content[1] = "\\"
    THEN getEscapeSequence(l, content)
    ELSE [l |-> [l EXCEPT !.Position = @ + 1], v |-> <<content[1]>>]

\* The loop of lexRune: index is 0-based into content (the text after the
\* opening quote), sb the builder, count the runes read.
RECURSIVE lexRuneLoop(_, _, _, _, _)
lexRuneLoop(l, content, index, count, sb) ==
    LET finish(lx, s, n) ==
            [l |-> IF n = 0 THEN pushError(lx, "rune_empty")
                   ELSE IF n > 1 THEN pushError(lx, "rune_overflow")
                   ELSE lx,
             v |-> s]
    IN  IF index >= Len(content) THEN finish(l, sb, count)
        ELSE IF content[index + 1] = "\n"
        THEN [l |-> NewLine([pushError(l, "missing_rune_end") EXCEPT !.Position = @ + 1]),
              v |-> <<>>]
        ELSE LET g == getRune(l, Drop(content, index))
                 length == Len(g.v)
                 l2 == [g.l EXCEPT !.Column = @ + length]
             IN  IF g.v = <<"'">>
                 THEN finish([l2 EXCEPT !.Position = @ + 1], sb \o g.v, count)
                 ELSE lexRuneLoop(l2, content,
                                  (IF length > 1 THEN index + length - 1 ELSE index) + 1,
                                  count + 1, sb \o g.v)

lexRune(l, content) ==
    lexRuneLoop([l EXCEPT !.Column = @ + 1], Tail(content), 0, 0, <<"'">>)

\* The loop of lexString. It is a range loop: the assignment to index in its
\* body does not change which element the next iteration visits.
RECURSIVE lexStringLoop(_, _, _, _)
lexStringLoop(l, content, index, sb) ==
    IF index >= Len(content) THEN [l |-> l, v |-> sb]
    ELSE IF content[index + 1] = "\n"
    THEN [l |-> NewLine([pushError(l, "missing_string_end") EXCEPT !.Position = @ + 1]),
          v |-> <<>>]
    ELSE LET g == getRune(l, Drop(content, index))
             length == Len(g.v)
             l2 == [g.l EXCEPT !.Column = @ + length]
         IN  IF g.v = <<"\"">>
             THEN [l |-> [l2 EXCEPT !.Position = @ + 1], v |-> sb \o g.v]
             ELSE lexStringLoop(l2, content, index + 1, sb \o g.v)

lexString(l, content) ==
    lexStringLoop([l EXCEPT !.Column = @ + 1], Tail(content), 0, <<"\"">>)

RECURSIVE lexLineCommentLoop(_)
lexLineCommentLoop(l) ==
    IF l.Position >= Len(Content) THEN l
    ELSE IF Content[l.Position + 1] = "\n"
    THEN NewLine([l EXCEPT !.Position = @ + 1])
    ELSE lexLineCommentLoop([l EXCEPT !.Position = @ + 1])

lexLineComment(l) == lexLineCommentLoop([l EXCEPT !.Position = @ + 2])

RECURSIVE lexBlockCommentLoop(_)
lexBlockCommentLoop(l) ==
    IF l.Position >= Len(Content) THEN pushError(l, "missing_block_comment")
    ELSE IF Content[l.Position + 1] = "\n"
    THEN lexBlockCommentLoop([NewLine(l) EXCEPT !.Position = @ + 1])
    ELSE LET l2 == [l EXCEPT !.Column = @ + 1]
         IN  IF HasPrefix(Drop(Content, l.Position), <<"*", "/">>)
             THEN [l2 EXCEPT !.Column = @ + 2, !.Position = @ + 2]
             ELSE lexBlockCommentLoop([l2 EXCEPT !.Position = @ + 1])

lexBlockComment(l) == lexBlockCommentLoop([l EXCEPT !.Position = @ + 2])

\* resume: skips the white space at Position.
RECURSIVE resume(_)
resume(l) ==
    IF l.Position < Len(Content) /\ IsSpace(Content[l.Position + 1])
    THEN LET adv == [l EXCEPT !.Column = @ + 1, !.Position = @ + 1]
         IN  resume(IF Content[l.Position + 1] = "\n" THEN NewLine(adv) ELSE adv)
    ELSE l

\* The fixed lexemes of Token, in the order of its switch.
Braces == <<"(", ")", "{", "}", "[", "]">>
Operators2 == << <<"<", "<">>, <<">", ">">>, <<"=", "=">>, <<"!", "=">>,
                 <<">", "=">>, <<"<", "=">>, <<"&", "&">>, <<"|", "|">> >>
Operators1 == {"+", "-", "*", "/", "%", "~", "&", "|", "^", "!", "<", ">", "="}
Keywords == << [kw |-> <<"v", "a", "r">>, type |-> "Var"],
               [kw |-> <<"c", "o", "n", "s", "t">>, type |-> "Const"],
               [kw |-> <<"i", "n", "t", "8">>, type |-> "Type"],
               [kw |-> <<"i", "n", "t", "1", "6">>, type |-> "Type"],
               [kw |-> <<"i", "n", "t", "3", "2">>, type |-> "Type"],
               [kw |-> <<"i", "n", "t", "6", "4">>, type |-> "Type"],
               [kw |-> <<"u", "i", "n", "t", "8">>, type |-> "Type"],
               [kw |-> <<"u", "i", "n", "t", "1", "6">>, type |-> "Type"],
               [kw |-> <<"u", "i", "n", "t", "3", "2">>, type |-> "Type"],
               [kw |-> <<"u", "i", "n", "t", "6", "4">>, type |-> "Type"],
               [kw |-> <<"f", "l", "o", "a", "t", "3", "2">>, type |-> "Type"],
               [kw |-> <<"f", "l", "o", "a", "t", "6", "4">>, type |-> "Type"],
               [kw |-> <<"r", "e", "t">>, type |-> "Return"],
               [kw |-> <<"b", "o", "o", "l">>, type |-> "Type"],
               [kw |-> <<"r", "u", "n", "e">>, type |-> "Type"],
               [kw |-> <<"s", "t", "r">>, type |-> "Type"],
               [kw |-> <<"t", "r", "u", "e">>, type |-> "Value"],
               [kw |-> <<"f", "a", "l", "s", "e">>, type |-> "Value"] >>

\* Token: the next token at Position and the lexer after it. A token of type
\* "NA" is dropped by Tokenize.
LexToken(l0) ==
    LET l == resume(l0)
        content == Drop(Content, l.Position)
        tok(type, value) == [Type |-> type, Value |-> value,
                             Column |-> l.Column, Line |-> l.Line]
        \* the tail of Token: Column += len(Value), names get the "_" prefix
        fixed(lx, type, value) ==
            [l |-> [lx EXCEPT !.Column = @ + Len(value)],
             token |-> tok(type, IF type = "Name" THEN <<"_">> \o value ELSE value)]
        lexeme(type, value) == fixed([l EXCEPT !.Position = @ + Len(value)], type, value)
        op2 == {i \in 1..Len(Operators2) : HasPrefix(content, Operators2[i])}
        kws == {i \in 1..Len(Keywords) : isKeyword(content, Keywords[i].kw)}
        first(S) == CHOOSE i \in S : \A j \in S : i <= j
    IN  IF content = <<>> THEN [l |-> l, token |-> [Type |-> "NA", Value |-> <<>>,
                                                    Column |-> 0, Line |-> 0]]
        ELSE IF content[1] = ";" THEN lexeme("SemiColon", <<";">>)
        ELSE IF content[1] = "," THEN lexeme("Comma", <<",">>)
        ELSE IF \E i \in 1..Len(Braces) : content[1] = Braces[i]
             THEN lexeme("Brace", <<content[1]>>)
        ELSE IF content[1] = "'"
             THEN LET r == lexRune(l, content) IN [l |-> r.l, token |-> tok("Value", r.v)]
        ELSE IF content[1] = "\""
             THEN LET r == lexString(l, content) IN [l |-> r.l, token |-> tok("Value", r.v)]
        ELSE IF HasPrefix(content, <<"/", "/">>)
             THEN [l |-> lexLineComment(l), token |-> tok("NA", <<>>)]
        ELSE IF HasPrefix(content, <<"/", "*">>)
             THEN [l |-> lexBlockComment(l), token |-> tok("NA", <<>>)]
        ELSE IF op2 # {} THEN lexeme("Operator", Operators2[first(op2)])
        ELSE IF content[1] \in Operators1 THEN lexeme("Operator", <<content[1]>>)
        ELSE IF kws # {} THEN lexeme(Keywords[first(kws)].type, Keywords[first(kws)].kw)
        ELSE LET name == lexName(l, content)
                 num == lexNumeric(l, content)
             IN  IF name.v # <<>> THEN fixed(name.l, "Name", name.v)
                 ELSE IF num.v # <<>> THEN fixed(num.l, "Value", num.v)
                 ELSE [l |-> [pushError(l, "invalid_token")
                                 EXCEPT !.Column = @ + 1, !.Position = @ + 1],
                       token |-> tok("NA", <<>>)]

LexInit ==
    /\ Content \in SeqsUpTo(Alphabet, MaxLen)
    /\ LexStart
    /\ IdleBut({"lex"})

\* One iteration of the loop of Tokenize.
Token ==
    /\ Position < Len(Content)
    /\ Len(tokens) < MaxTokens
    /\ LET r == LexToken([Position |-> Position, Column |-> Column,
                          Line |-> Line, Errors |-> Errors])
       IN  /\ Position' = r.l.Position
           /\ Column' = r.l.Column
           /\ Line' = r.l.Line
           /\ Errors' = r.l.Errors
           /\ tokens' = IF r.token.Type # "NA" THEN Append(tokens, r.token) ELSE tokens
    /\ UNCHANGED Content
    /\ Keep({"lex"})

SpecLex == LexInit /\ [][Token]_vars

\* C4: every call of Token made while Position < len(Content) strictly
\* increases Position, so that Tokenize terminates.
C4_TokenAdvancesPosition == [][Position' > Position]_vars

\* ========================================================================
\* STATEMENT CHECKER (src/parser/parser.go): checkFunc, checkBlock, checkRets
\* ========================================================================
\* A statement is a record [kind, profile, term, expr, block]: kind is the Go
\* type of Statement.Value, profile the Iter's profile ("While", "Foreach" or
\* "None" for a nil Profile), term is Statement.WithTerminator, expr the
\* tokens of a Ret's expression and block the statements of its Block. The
\* token of a statement is its path: the indices leading to it from the
\* function's block. Conditions and iterated expressions are evaluated by
\* evalExpr, which this part leaves out.

\* Bound: the number of statements of a function body.
MaxNodes == 3

Label(kinds, profiles, terms, exprs) ==
    [kind : kinds, profile : profiles, term : terms, expr : exprs]

\* The statements of the functions that exercise the control flow ...
FlowLabels ==
    Label({"Break", "Continue", "Else"}, {"None"}, {FALSE}, {<<>>})
    \cup Label({"Iter"}, {"While", "Foreach", "None"}, {FALSE}, {<<>>})
    \cup Label({"If"}, {"None"}, BOOLEAN, {<<>>})
    \cup Label({"ElseIf"}, {"None"}, {FALSE}, {<<>>})

\* ... and of those that exercise the return sites.
RetLabels ==
    Label({"Ret"}, {"None"}, {FALSE}, {<<>>, <<"v">>})
    \cup Label({"Iter"}, {"While"}, {FALSE}, {<<>>})
    \cup Label({"If", "Else"}, {"None"}, {FALSE}, {<<>>})

HasBlock(s) == s.kind \in {"Iter", "If", "ElseIf", "Else"}

WithBlock(l, b) ==
    [kind |-> l.kind, profile |-> l.profile, term |-> l.term, expr |-> l.expr, block |-> b]

\* The nesting depths of n statements written one after another: the first is
\* at depth 0 and a statement is at most one level deeper than the one before.
Shapes(n) ==
    {d \in [1..n -> 0..(MaxNodes - 1)] :
        /\ n > 0 => d[1] = 0
        /\ \A i \in 1..(n - 1) : d[i + 1] <= d[i] + 1}

\* Only a statement with a block is followed by a deeper statement.
Labelled(d, ls) ==
    \A i \in 1..(Len(d) - 1) : d[i + 1] = d[i] + 1 => HasBlock(ls[i])

\* The block of the statements lo..hi, all of them at depth d[lo] or deeper.
RECURSIVE Nest(_, _, _, _)
Nest(d, ls, lo, hi) ==
    IF lo > hi THEN <<>>
    ELSE LET sib == {j \in (lo + 1)..hi : d[j] = d[lo]}
             nxt == IF sib = {} THEN hi + 1 ELSE CHOOSE j \in sib : \A k \in sib : j <= k
         IN  <<WithBlock(ls[lo], Nest(d, ls, lo + 1, nxt - 1))>> \o Nest(d, ls, nxt, hi)

\* An ast.DataType: Value is its lexeme, a sequence of lexeme units (`*`, `[]`,
\* a name), empty for the type that is not written.
I32Type == [Code |-> "I32", MultiTyped |-> FALSE, Tag |-> <<>>, Value |-> <<"i32">>]
VoidType == [Code |-> "Void", MultiTyped |-> FALSE, Tag |-> <<>>, Value |-> <<>>]
StrType == [Code |-> "Str", MultiTyped |-> FALSE, Tag |-> <<>>, Value |-> <<"str">>]

\* p.pusherrtok on the statement checker's state record.
pusherrtok(st, tok, key) ==
    [st EXCEPT !.Logs = Append(@, [tok |-> tok, key |-> key])]

typeIsVoidRet(t) == t.Code = "Void" /\ ~t.MultiTyped

\* Started with `go`: recorded in spawned, run by the task scheduler.
\* at tells how many diagnostics the caller had pushed before the start.
goTask(st, task) == [st EXCEPT !.spawned = Append(@, task @@ ("at" :> Len(st.Logs)))]


\* ---- assignments (checkAssign) ------------------------------------------
\* p is the parser: [Logs, spawned, Types, Funcs, GlobalVars,
\* waitingGlobalVars, BlockVars]. A variable is an AstVar, a function
\* [Id, RetType], a type [Id, Type]. The setter of an assignment has the token
\* <<0>>, its i-th selector the token <<i>>.
IsIgnoreId(id) == id = "_"

Find(table, id) == SelectSeq(table, LAMBDA x : x.Id = id)

typeById(p, id) == Find(p.Types, id)

FuncById(p, id) == Find(p.Funcs, id)

varById(p, id) == Find(p.BlockVars \o p.GlobalVars, id)

\* existIdf(id, exceptGlobals).Id != lex.NA
existIdf(p, id, exceptGlobals) ==
    \/ typeById(p, id) # <<>>
    \/ FuncById(p, id) # <<>>
    \/ Find(p.BlockVars, id) # <<>>
    \/ ~exceptGlobals /\ Find(p.GlobalVars \o p.waitingGlobalVars, id) # <<>>

\* The value of an expression: [lvalue, constant, type, func, data]; func tells
\* that the type's tag is a function the parser knows, data is ast.Data, the
\* text of the expression when it is one token.
Value(lvalue, constant, type, func, text) ==
    [lvalue |-> lvalue, constant |-> constant, type |-> type, func |-> func,
     data |-> text]

\* valueEvaluator.id
evalId(p, id, tok) ==
    IF varById(p, id) # <<>>
    THEN [p |-> p, v |-> Value(TRUE, Head(varById(p, id)).Const,
                             Head(varById(p, id)).Type, FALSE, id)]
    ELSE IF FuncById(p, id) # <<>>
    THEN [p |-> p, v |-> Value(FALSE, FALSE, VoidType, TRUE, id)]
    ELSE [p |-> pusherrtok(p, tok, "id_noexist"),
          v |-> Value(FALSE, FALSE, VoidType, FALSE, id)]

\* evalExpr on an identifier, a literal (the number 1 or a string) or a call
\* of a function.
evalExpr(p, e, tok) ==
    IF e.kind = "id" THEN evalId(p, e.id, tok)
    ELSE IF e.kind = "lit"
    THEN [p |-> p, v |-> Value(FALSE, FALSE, IF e.id = "1" THEN I32Type ELSE StrType,
                               FALSE, e.id)]
    ELSE IF FuncById(p, e.id) # <<>>
    THEN [p |-> p, v |-> Value(FALSE, FALSE, Head(FuncById(p, e.id)).RetType, FALSE, "")]
    ELSE [p |-> pusherrtok(p, tok, "id_noexist"),
          v |-> Value(FALSE, FALSE, VoidType, FALSE, "")]

IdExpr(id) == [kind |-> "id", id |-> id]

checkAssignment(p, selected, errtok) ==
    LET p1 == IF ~selected.lvalue THEN pusherrtok(p, errtok, "assign_nonlvalue") ELSE p
        p2 == IF selected.constant THEN pusherrtok(p1, errtok, "assign_const") ELSE p1
        p3 == IF selected.func THEN pusherrtok(p2, errtok, "assign_type_not_support_value")
              ELSE p2
    IN  [p |-> p3, state |-> selected.lvalue /\ ~selected.constant /\ ~selected.func]

\* An ast.Var: Type is VoidType when the type is left to the value, Setter
\* tells that it has a value (SetterToken.Id != lex.NA).
AstVar(id, const, type, setter, expr) ==
    [Id |-> id, Const |-> const, Type |-> type, Setter |-> setter, Value |-> expr]

NumExpr == [kind |-> "lit", id |-> "1"]

\* A variable of a checked statement: its value is a number.
NumVar(id) == AstVar(id, FALSE, VoidType, TRUE, NumExpr)

\* A type that is the name of another type behind a prefix of `*` and `[]`:
\* dt.Token.Kind is Id, one lexeme unit, the last of Value; its token is <<-1>>.
PrefixedName(prefix, id) ==
    [Code |-> "Name", MultiTyped |-> FALSE, Tag |-> <<>>, Value |-> Append(prefix, id),
     Id |-> id]

NameType(id) == PrefixedName(<<>>, id)

\* A function type: dt.Tag is an ast.Func, here Func: [Params, RetType]. Its
\* Params is a slice: the number of its backing array in p.arrays, which every
\* copy of the ast.Func shares.
FuncType(params, ret, lexeme) ==
    [Code |-> "Func", MultiTyped |-> FALSE, Tag |-> <<>>, Value |-> lexeme,
     Func |-> [Params |-> params, RetType |-> ret]]

\* ast.Func.DataTypeString: the lexemes of the parameter types between
\* parentheses, then the lexeme of the return type.
DataTypeString(p, f) ==
    LET RECURSIVE params(_)
        params(index) ==
            IF index > Len(p.arrays[f.Params]) THEN <<>>
            ELSE p.arrays[f.Params][index].Value \o <<",">> \o params(index + 1)
    IN  <<"(">> \o params(1) \o <<")">> \o f.RetType.Value

\* readyType: [p, dt, ok]. typeById yields the address of a copy of the table's
\* entry, so the lexeme is spliced into the copy; the parameter types of a
\* function type are stored through the slice of the copied ast.Func, into the
\* backing array, and the resolved return type only into the copy funAST.
RECURSIVE readyType(_, _, _)
readyType(p, dt, err) ==
    IF dt.Value = <<>> THEN [p |-> p, dt |-> dt, ok |-> TRUE]
    ELSE IF dt.Code = "Name"
    THEN IF typeById(p, dt.Id) = <<>>
         THEN [p |-> IF err THEN pusherrtok(p, <<-1>>, "invalid_type_source") ELSE p,
               dt |-> dt, ok |-> FALSE]
         ELSE LET t == Head(typeById(p, dt.Id))
              IN  readyType(p, [t.Type EXCEPT
                                   !.Value = SubSeq(dt.Value, 1, Len(dt.Value) - 1) \o @],
                            err)
    ELSE IF dt.Code = "Func"
    THEN LET a == dt.Func.Params
             RECURSIVE params(_, _)
             params(q, index) ==
                 IF index > Len(q.arrays[a]) THEN q
                 ELSE LET r == readyType(q, q.arrays[a][index], err)
                      IN  params([r.p EXCEPT !.arrays[a][index] = r.dt], index + 1)
             ret == readyType(params(p, 1), dt.Func.RetType, err)
         IN  [p |-> ret.p, dt |-> [dt EXCEPT !.Value = DataTypeString(ret.p, dt.Func)],
              ok |-> TRUE]
    ELSE [p |-> p, dt |-> dt, ok |-> TRUE]

checkValidityForAutoType(p, t, err) ==
    IF t.Code = "Nil" THEN pusherrtok(p, err, "nil_for_autotype")
    ELSE IF t.Code = "Void" THEN pusherrtok(p, err, "void_for_autotype")
    ELSE p

\* typeIsMut(t) is typeIsPtr(t): no type of the model is a pointer.
checkAssignConst(p, constant, t, val, errToken) ==
    IF t.Code = "Ptr" /\ val.constant /\ ~constant
    THEN pusherrtok(p, errToken, "constant_assignto_nonconstant")
    ELSE p

\* Parser.Var: [p, vast]. The token of the identifier is tok, the token of
\* the setter tok \o <<0>>.
Var(p, vast, tok) ==
    LET p1 == IF IsIgnoreId(vast.Id) THEN pusherrtok(p, tok, "ignore_id") ELSE p
        val == IF vast.Setter THEN evalExpr(p1, vast.Value, tok)
               ELSE [p |-> p1, v |-> Value(FALSE, FALSE, VoidType, FALSE, "")]
        typed == vast.Type.Code # "Void"
        p2 == IF typed
              THEN IF vast.Setter
                   THEN goTask(val.p, [task |-> "checkAssignTypeAsync",
                                       constant |-> vast.Const, t |-> vast.Type,
                                       v |-> val.v, errtok |-> tok])
                   ELSE readyType(val.p, vast.Type, TRUE).p
              ELSE IF ~vast.Setter THEN pusherrtok(val.p, tok, "missing_autotype_value")
              ELSE checkAssignConst(
                       checkValidityForAutoType(val.p, val.v.type, Append(tok, 0)),
                       vast.Const, val.v.type, val.v, Append(tok, 0))
        p3 == IF vast.Const /\ ~vast.Setter THEN pusherrtok(p2, tok, "missing_const_value")
              ELSE p2
    IN  [p |-> p3,
         vast |-> [vast EXCEPT !.Type = IF ~typed /\ vast.Setter THEN val.v.type ELSE @]]

checkVarStatement(p, vast, tok) ==
    LET p1 == IF existIdf(p, vast.Id, TRUE) THEN pusherrtok(p, tok, "exist_id") ELSE p
        r == Var(p1, vast, tok)
    IN  [r.p EXCEPT !.BlockVars = Append(@, r.vast)]

goCheckAssignType(p, selected, val, errtok) ==
    goTask(p, [task |-> "checkAssignTypeAsync", constant |-> selected.constant,
               t |-> selected.type, v |-> val, errtok |-> errtok])

checkSingleAssign(p, a) ==
    IF IsIgnoreId(a.SelectExprs[1].Id) THEN p
    ELSE LET s == evalExpr(p, IdExpr(a.SelectExprs[1].Id), <<1>>)
             c == checkAssignment(s.p, s.v, <<0>>)
             val == evalExpr(c.p, a.ValueExprs[1], <<0>>)
         IN  IF ~c.state THEN c.p
             ELSE goCheckAssignType(val.p, s.v, val.v, <<0>>)

RECURSIVE parseAssignSelections(_, _, _)
parseAssignSelections(p, a, index) ==
    IF index > Len(a.SelectExprs) THEN p
    ELSE parseAssignSelections(
             checkVarStatement(p, NumVar(a.SelectExprs[index].Id), <<index>>),
             a, index + 1)

\* Yields the parser and the values of the value expressions.
RECURSIVE assignExprs(_, _, _, _)
assignExprs(p, a, index, values) ==
    IF index > Len(a.ValueExprs) THEN [p |-> p, values |-> values]
    ELSE LET r == evalExpr(p, a.ValueExprs[index], <<0>>)
         IN  assignExprs(r.p, a, index + 1, Append(values, r.v))

RECURSIVE processMultiAssign(_, _, _, _)
processMultiAssign(p, a, vals, index) ==
    IF index > Len(a.SelectExprs) THEN p
    ELSE LET selector == a.SelectExprs[index]
             s == evalExpr(p, IdExpr(selector.Id), <<index>>)
             c == checkAssignment(s.p, s.v, <<0>>)
         IN  IF ~selector.NewVariable
             THEN IF IsIgnoreId(selector.Id) THEN processMultiAssign(p, a, vals, index + 1)
                  ELSE IF ~c.state THEN c.p
                  ELSE processMultiAssign(goCheckAssignType(c.p, s.v, vals[index], <<0>>),
                                          a, vals, index + 1)
             ELSE processMultiAssign(
                      checkVarStatement(p, NumVar(selector.Id), <<index>>),
                      a, vals, index + 1)

processFuncMultiAssign(p, a, funcVal) ==
    LET types == funcVal.type.Tag
    IN  IF Len(types) # Len(a.SelectExprs)
        THEN pusherrtok(p, <<0>>, "missing_multiassign_identifiers")
        ELSE processMultiAssign(p, a, [i \in 1..Len(types) |->
                                          Value(FALSE, FALSE, types[i], FALSE, "")], 1)

checkAssign(p, a) ==
    LET selectLength == Len(a.SelectExprs)
        valueLength == Len(a.ValueExprs)
        firstVal == evalExpr(p, a.ValueExprs[1], <<0>>)
        evaluated == IF valueLength = 1 THEN firstVal.p ELSE p
        vals == assignExprs(evaluated, a, 1, <<>>)
    IN  IF a.JustDeclare THEN parseAssignSelections(p, a, 1)
        ELSE IF selectLength = 1 /\ ~a.SelectExprs[1].NewVariable THEN checkSingleAssign(p, a)
        ELSE IF a.Setter # "=" THEN pusherrtok(p, <<0>>, "invalid_syntax")
        ELSE IF valueLength = 1 /\ firstVal.v.type.MultiTyped
        THEN processFuncMultiAssign(firstVal.p, a, firstVal.v)
        ELSE IF selectLength > valueLength
        THEN pusherrtok(evaluated, <<0>>, "overflow_multiassign_identifiers")
        ELSE IF selectLength < valueLength
        THEN pusherrtok(evaluated, <<0>>, "missing_multiassign_identifiers")
        ELSE processMultiAssign(vals.p, a, vals.values, 1)

\* ---- statements (checkBlock) --------------------------------------------
checkBreakStatement(tok, st) ==
    IF st.iterCount = 0 THEN pusherrtok(st, tok, "break_at_outiter") ELSE st

checkContinueStatement(tok, st) ==
    IF st.iterCount = 0 THEN pusherrtok(st, tok, "continue_at_outiter") ELSE st

RECURSIVE checkBlockFrom(_, _, _, _)
RECURSIVE checkIfNode(_, _, _, _, _)

\* checkBlock(b): the statements of b from the first one; path is the token
\* of the statement that owns b.
checkBlock(b, path, st) == checkBlockFrom(b, path, 1, st)

checkWhileProfile(iter, tok, st) == checkBlock(iter.block, tok, st)

\* The keys of the foreach are no new variables; the block variables are put
\* back to what they were before the block.
checkForeachProfile(iter, tok, st) ==
    LET blockVariables == st.BlockVars
    IN  [checkBlock(iter.block, tok, st) EXCEPT !.BlockVars = blockVariables]

\* Mutant of checkIterExpr: the counter is not taken back on leaving the iter.
checkIterExprNoLeave(iter, tok, st) ==
    LET entered == [st EXCEPT !.iterCount = @ + 1]
    IN  IF iter.profile = "None" THEN entered ELSE checkBlock(iter.block, tok, entered)

checkIterExpr(iter, tok, st) ==
    LET entered == [st EXCEPT !.iterCount = @ + 1]
        checked == IF iter.profile = "While" THEN checkWhileProfile(iter, tok, entered)
                   ELSE IF iter.profile = "Foreach" THEN checkForeachProfile(iter, tok, entered)
                   ELSE entered
    IN  [checked EXCEPT !.iterCount = @ - 1]

checkElseBlock(elseast, tok, st) == checkBlock(elseast.block, tok, st)

\* checkIfExpr from its label `node` on: statement is the member of the chain
\* checked last, index its place in statements. Yields the index the loop of
\* checkBlock goes on from.
checkIfNode(statement, index, statements, path, st) ==
    IF statement.term THEN [index |-> index, st |-> st]
    ELSE IF index + 1 > Len(statements) THEN [index |-> index, st |-> st]
    ELSE LET t == statements[index + 1]
             tok == Append(path, index + 1)
         IN  IF t.kind = "ElseIf"
             THEN checkIfNode(t, index + 1, statements, path, checkBlock(t.block, tok, st))
             ELSE IF t.kind = "Else"
             THEN [index |-> index + 1, st |-> checkElseBlock(t, tok, st)]
             ELSE [index |-> index, st |-> st]

checkIfExpr(ifast, index, statements, path, st) ==
    checkIfNode(statements[index], index, statements, path,
                checkBlock(ifast.block, Append(path, index), st))

checkBlockFrom(b, path, index, st) ==
    IF index > Len(b) THEN st
    ELSE LET s == b[index]
             tok == Append(path, index)
         IN  IF s.kind = "Iter"
             THEN checkBlockFrom(b, path, index + 1, checkIterExpr(s, tok, st))
             ELSE IF s.kind = "Break"
             THEN checkBlockFrom(b, path, index + 1, checkBreakStatement(tok, st))
             ELSE IF s.kind = "Continue"
             THEN checkBlockFrom(b, path, index + 1, checkContinueStatement(tok, st))
             ELSE IF s.kind = "If"
             THEN LET r == checkIfExpr(s, index, b, path, st)
                  IN  checkBlockFrom(b, path, r.index + 1, r.st)
             ELSE IF s.kind = "Assign"
             THEN checkBlockFrom(b, path, index + 1, checkAssign(st, s.assign))
             ELSE IF s.kind = "Var"
             THEN checkBlockFrom(b, path, index + 1, checkVarStatement(st, s.var, tok))
             ELSE IF s.kind = "Ret"
             THEN checkBlockFrom(b, path, index + 1, st)
             ELSE checkBlockFrom(b, path, index + 1, pusherrtok(st, tok, "invalid_syntax"))

\* ---- retChecker ---------------------------------------------------------
\* rc is the retChecker: [st, values]; toks are the tokens of the ret's
\* expression ("v" a value token, "," a comma, "(" and ")" braces) and tok the
\* token of the ret statement. The token of the i-th expression token (0-based)
\* is tok \o <<0, i>>.

pushval(rc, toks, last, current, errTk) ==
    IF current - last = 0
    THEN [rc EXCEPT !.st = pusherrtok(@, errTk, "missing_value")]
    ELSE [rc EXCEPT !.values = Append(@, SubSeq(toks, last + 1, current))]

checkExprTypes(rc, funast, tok) ==
    LET valLength == Len(rc.values)
        types == funast.RetType.Tag
        goAssign(st, t, i) ==
            goTask(st, [task |-> "checkAssignTypeAsync", t |-> t,
                        v |-> rc.values[i], errtok |-> tok])
        RECURSIVE each(_, _)
        each(index, st) ==
            IF index > Len(types) \/ index > valLength THEN st
            ELSE each(index + 1, goAssign(st, types[index], index))
    IN  IF ~funast.RetType.MultiTyped
        THEN IF valLength = 0
             THEN [rc.st EXCEPT !.panicked = TRUE]    \* models[0]: index out of range
             ELSE goAssign(IF valLength > 1 THEN pusherrtok(rc.st, tok, "overflow_return")
                         ELSE rc.st,
                         funast.RetType, 1)
        ELSE each(1, IF valLength = 1 THEN pusherrtok(rc.st, tok, "missing_multi_return")
                     ELSE IF valLength > Len(types)
                     THEN pusherrtok(rc.st, tok, "overflow_return")
                     ELSE rc.st)

RECURSIVE checkepxrsLoop(_, _, _, _, _, _)
checkepxrsLoop(rc, toks, tok, index, braceCount, last) ==
    IF index >= Len(toks) THEN [rc |-> rc, last |-> last]
    ELSE LET token == toks[index + 1]
             bc == IF token = "(" THEN braceCount + 1
                   ELSE IF token = ")" THEN braceCount - 1
                   ELSE braceCount
         IN  IF bc > 0 \/ token # ","
             THEN checkepxrsLoop(rc, toks, tok, index + 1, bc, last)
             ELSE checkepxrsLoop(pushval(rc, toks, last, index, tok \o <<0, index>>),
                                 toks, tok, index + 1, bc, index + 1)

checkepxrs(rc, toks, funast, tok) ==
    LET r == checkepxrsLoop(rc, toks, tok, 0, 0, 0)
        length == Len(toks)
        rc2 == IF r.last < length
               THEN IF r.last = 0 THEN pushval(r.rc, toks, 0, length, tok)
                    ELSE pushval(r.rc, toks, r.last, length, tok \o <<0, r.last - 1>>)
               ELSE r.rc
    IN  IF ~typeIsVoidRet(funast.RetType) THEN checkExprTypes(rc2, funast, tok) ELSE rc2.st

\* retChecker.check
retCheck(st, retAST, funast, tok) ==
    LET exprTokensLen == Len(retAST.expr)
    IN  IF exprTokensLen = 0 /\ ~typeIsVoidRet(funast.RetType)
        THEN pusherrtok(st, tok, "require_return_value")
        ELSE checkepxrs([st |-> IF exprTokensLen > 0 /\ typeIsVoidRet(funast.RetType)
                                THEN pusherrtok(st, tok, "void_function_return_value")
                                ELSE st,
                         values |-> <<>>],
                        retAST.expr, funast, tok)

RECURSIVE checkRetsLoop(_, _, _, _)
checkRetsLoop(funast, index, missed, st) ==
    IF st.panicked THEN st
    ELSE IF index > Len(funast.Block)
    THEN IF missed /\ ~typeIsVoidRet(funast.RetType)
         THEN pusherrtok(st, <<>>, "missing_return") ELSE st
    ELSE IF funast.Block[index].kind = "Ret"
    THEN checkRetsLoop(funast, index + 1, FALSE,
                       retCheck(st, funast.Block[index], funast, <<index>>))
    ELSE checkRetsLoop(funast, index + 1, missed, st)

checkRets(funast, st) == checkRetsLoop(funast, 1, TRUE, st)

checkFunc(funast, st) == checkRets(funast, checkBlock(funast.Block, <<>>, st))

FuncStart ==
    /\ iterCount = 0
    /\ Logs = <<>>
    /\ spawned = <<>>
    /\ pcFunc = "check"

\* The functions checked: those of FlowLabels return nothing, those of
\* RetLabels return nothing or an i32.
BlockInit ==
    /\ \E L \in {FlowLabels, RetLabels} :
       \E rt \in IF L = FlowLabels THEN {VoidType} ELSE {VoidType, I32Type} :
       \E n \in 0..MaxNodes : \E d \in Shapes(n) : \E ls \in [1..n -> L] :
          /\ Labelled(d, ls)
          /\ fun = [RetType |-> rt, Block |-> Nest(d, ls, 1, n)]
    /\ FuncStart
    /\ IdleBut({"fun", "sink"})

\* checkFunc on fun, as checkFuncsAsync calls it.
CheckFunc ==
    /\ pcFunc = "check"
    /\ LET st == checkFunc(fun, [iterCount |-> iterCount, Logs |-> Logs,
                                 spawned |-> spawned, BlockVars |-> BlockVars,
                                 panicked |-> FALSE])
       IN  /\ iterCount' = st.iterCount
           /\ Logs' = st.Logs
           /\ spawned' = st.spawned
           /\ pcFunc' = IF st.panicked THEN "panic" ELSE "done"
    /\ UNCHANGED fun
    /\ Keep({"fun", "sink"})

SpecBlock == BlockInit /\ [][CheckFunc]_vars

\* ---- what the statements of fun are, read off the AST ----------------------
\* The statement at path p of block b.
RECURSIVE StmtAt(_, _)
StmtAt(b, p) == IF Len(p) = 1 THEN b[p[1]] ELSE StmtAt(b[p[1]].block, Tail(p))

\* The paths of all statements of block b.
RECURSIVE PathsOf(_)
PathsOf(b) ==
    UNION { {<<i>>} \cup {<<i>> \o q : q \in PathsOf(b[i].block)} : i \in 1..Len(b) }

Prefix(p, n) == SubSeq(p, 1, n)

\* The number of iter statements enclosing the statement at path p.
EnclosingIters(b, p) ==
    Cardinality({n \in 1..(Len(p) - 1) : StmtAt(b, Prefix(p, n)).kind = "Iter"})

\* An else-if or else is attached when the statement before it is an if, or an
\* attached else-if, that was written without a terminator.
RECURSIVE Attached(_, _)
Attached(blk, i) ==
    /\ blk[i].kind \in {"ElseIf", "Else"}
    /\ i > 1
    /\ ~blk[i - 1].term
    /\ \/ blk[i - 1].kind = "If"
       \/ blk[i - 1].kind = "ElseIf" /\ Attached(blk, i - 1)

\* The block that holds the statement at path p.
BlockAt(b, p) == IF Len(p) = 1 THEN b ELSE StmtAt(b, Prefix(p, Len(p) - 1)).block

\* The statement at p is one the walk of checkBlock comes to: each statement
\* enclosing it is an iter with a profile, an if, or an attached else-if or
\* else.
Walked(b, p) ==
    \A n \in 1..(Len(p) - 1) :
        LET q == Prefix(p, n)
            s == StmtAt(b, q)
        IN  \/ s.kind = "Iter" /\ s.profile # "None"
            \/ s.kind = "If"
            \/ Attached(BlockAt(b, q), q[n])

\* How often the diagnostic key was pushed for token tok.
Pushed(log, tok, key) ==
    Cardinality({i \in 1..Len(log) : log[i] = [tok |-> tok, key |-> key]})

\* ---- claims about the statement checker ---------------------------------

C6_EveryRetChecked ==
    pcFunc = "done" =>
        \A p \in PathsOf(fun.Block) :
            LET s == StmtAt(fun.Block, p)
            IN  s.kind = "Ret" /\ Walked(fun.Block, p) =>
                    /\ typeIsVoidRet(fun.RetType) /\ s.expr # <<>>
                           => Pushed(Logs, p, "void_function_return_value") = 1
                    /\ ~typeIsVoidRet(fun.RetType) /\ s.expr = <<>>
                           => Pushed(Logs, p, "require_return_value") = 1

\* ---- return sites ---------------------------------------------------------
MaxRetTokens == 5
MaxTypes == 3

\* A multi-typed return type of n types: its Code is void, MultiTyped tells
\* it from the void return type.
MultiType(n) ==
    [Code |-> "Void", MultiTyped |-> TRUE, Tag |-> [i \in 1..n |-> I32Type],
     Value |-> <<>>]

RetStatement(expr) ==
    [kind |-> "Ret", profile |-> "None", term |-> FALSE, expr |-> expr, block |-> <<>>]

\* A function whose body is one ret; its expression is any token sequence.
RetInit ==
    /\ \E rt \in {VoidType, I32Type} \cup {MultiType(n) : n \in 2..MaxTypes} :
       \E expr \in SeqsUpTo({"v", ",", "(", ")"}, MaxRetTokens) :
          fun = [RetType |-> rt, Block |-> <<RetStatement(expr)>>]
    /\ FuncStart
    /\ IdleBut({"fun", "sink"})

SpecRet == RetInit /\ [][CheckFunc]_vars

\* expr is k values with a comma between each two: v , v , ... , v
IsValueList(expr, k) ==
    /\ Len(expr) = 2 * k - 1
    /\ \A i \in 1..Len(expr) : expr[i] = (IF i % 2 = 1 THEN "v" ELSE ",")

CountKeys == {"missing_multi_return", "overflow_return", "missing_return_value"}

\* C7: once checkFunc is done with a function whose body is `ret v, ..., v`
\* with k values: if the return type is multi-typed with n types, k = 1 has
\* missing_multi_return pushed, k > n has overflow_return pushed, any other
\* k # n has some count diagnostic pushed and k = n has none; if the return
\* type is a single type, k > 1 has overflow_return pushed.
C7_RetCountDiagnostic ==
    pcFunc = "done" /\ Len(fun.Block) = 1 /\ fun.Block[1].kind = "Ret" =>
        \A k \in 1..MaxRetTokens :
            IsValueList(fun.Block[1].expr, k) =>
                LET n == Len(fun.RetType.Tag)
                    keys == {Logs[i].key : i \in 1..Len(Logs)}
                IN  IF fun.RetType.MultiTyped
                    THEN /\ k = 1 => "missing_multi_return" \in keys
                         /\ k > n => "overflow_return" \in keys
                         /\ k # n => keys \cap CountKeys # {}
                         /\ k = n => keys \cap CountKeys = {}
                    ELSE ~typeIsVoidRet(fun.RetType) /\ k > 1 => "overflow_return" \in keys

\* ========================================================================
\* ASSIGNMENTS (src/parser/parser.go, checkAssign)
\* ========================================================================
\* An assignment has at most MaxSelectors selectors and as many values.
MaxSelectors == 2

\* The scope an assignment is checked in: a variable a, a constant c, a
\* function f and a function g that returns two values.
AssignScope ==
    /\ Types = <<>>
    /\ Funcs = <<[Id |-> "f", RetType |-> I32Type], [Id |-> "g", RetType |-> MultiType(2)]>>
    /\ GlobalVars = <<>>
    /\ waitingGlobalVars = <<>>
    /\ BlockVars = <<AstVar("a", FALSE, I32Type, TRUE, NumExpr),
                    AstVar("c", TRUE, I32Type, TRUE, NumExpr)>>

AssignInit ==
    /\ assign \in [Setter : {"=", "+="},
                   JustDeclare : BOOLEAN,
                   SelectExprs : UNION {[1..n -> [Id : {"a", "c", "f", "_", "n"},
                                                  NewVariable : BOOLEAN]]
                                        : n \in 1..MaxSelectors},
                   ValueExprs : UNION {[1..n -> {[kind |-> "lit", id |-> "1"],
                                                 [kind |-> "call", id |-> "g"]}]
                                       : n \in 1..MaxSelectors}]
    /\ AssignScope
    /\ Logs = <<>>
    /\ spawned = <<>>
    /\ pcFunc = "check"
    /\ IdleBut({"assign", "tables", "sink"})

\* checkAssign on assign, as checkBlock calls it.
CheckAssign ==
    /\ pcFunc = "check"
    /\ LET p == checkAssign([Logs |-> Logs, spawned |-> spawned, Types |-> Types,
                             Funcs |-> Funcs, GlobalVars |-> GlobalVars,
                             waitingGlobalVars |-> waitingGlobalVars,
                             BlockVars |-> BlockVars], assign)
       IN  /\ Logs' = p.Logs
           /\ spawned' = p.spawned
           /\ BlockVars' = p.BlockVars
    /\ pcFunc' = "done"
    /\ UNCHANGED <<Types, Funcs, GlobalVars, waitingGlobalVars>>
    /\ Keep({"sink", "tables"})

SpecAssign == AssignInit /\ [][CheckAssign]_vars

\* The selectors of assign that name an existing constant.
ConstSelectors ==
    {i \in 1..Len(assign.SelectExprs) :
        /\ ~assign.SelectExprs[i].NewVariable
        /\ Find(BlockVars \o GlobalVars, assign.SelectExprs[i].Id) # <<>>
        /\ Head(Find(BlockVars \o GlobalVars, assign.SelectExprs[i].Id)).Const}

\* C8: once checkAssign is done with an assignment (a single one with = or
\* op=, or a multi-assignment with =), assign_const was pushed once for each
\* selector that names an existing constant, whatever the other selectors
\* are and whether or not the selector and value counts match.
C8_ConstSelectorsReported ==
    /\ pcFunc = "done"
    /\ ~assign.JustDeclare
    /\ assign.SelectExprs # <<>>
    /\ Len(assign.SelectExprs) > 1 => assign.Setter = "="
    => Pushed(Logs, <<0>>, "assign_const") = Cardinality(ConstSelectors)

\* ========================================================================
\* DECLARATIONS (src/parser/parser.go, Parse)
\* ========================================================================
\* The token of the i-th object of Tree is <<i>>.
MaxDecls == 3

existName(p, name) == existIdf(p, name, FALSE)

Parser ==
    [Logs |-> Logs, spawned |-> spawned, Types |-> Types, Funcs |-> Funcs,
     GlobalVars |-> GlobalVars, waitingGlobalVars |-> waitingGlobalVars,
     BlockVars |-> BlockVars, arrays |-> arrays]

DeclInit ==
    /\ Tree \in SeqsUpTo([kind : {"Type", "Func", "Var"}, Id : {"x", "y", "_"}], MaxDecls)
    /\ objIndex = 0
    /\ Logs = <<>>
    /\ spawned = <<>>
    /\ pcFunc = "parse"
    /\ IdleBut({"decl", "sink"})

\* The object the loop of Parse is at.
Obj == Tree[objIndex + 1]

\* Parse has an object of the given kind to go through.
AtObj(kind) ==
    /\ pcFunc = "parse"
    /\ objIndex < Len(Tree)
    /\ Obj.kind = kind
    /\ objIndex' = objIndex + 1
    /\ UNCHANGED <<Tree, spawned, pcFunc, BlockVars>>
    /\ Keep({"decl", "sink", "tables"})

Type ==
    /\ AtObj("Type")
    /\ IF existName(Parser, Obj.Id)
       THEN Logs' = pusherrtok(Parser, <<objIndex + 1>>, "exist_id").Logs /\ UNCHANGED Types
       ELSE IF IsIgnoreId(Obj.Id)
       THEN Logs' = pusherrtok(Parser, <<objIndex + 1>>, "ignore_id").Logs /\ UNCHANGED Types
       ELSE Types' = Append(Types, [Id |-> Obj.Id, Type |-> I32Type]) /\ UNCHANGED Logs
    /\ UNCHANGED <<Funcs, GlobalVars, waitingGlobalVars>>

Func ==
    /\ AtObj("Func")
    /\ Logs' = IF existName(Parser, Obj.Id)
               THEN pusherrtok(Parser, <<objIndex + 1>>, "exist_id").Logs
               ELSE IF IsIgnoreId(Obj.Id)
               THEN pusherrtok(Parser, <<objIndex + 1>>, "ignore_id").Logs
               ELSE Logs
    /\ Funcs' = Append(Funcs, [Id |-> Obj.Id, RetType |-> VoidType])
    /\ UNCHANGED <<Types, GlobalVars, waitingGlobalVars>>

GlobalVar ==
    /\ AtObj("Var")
    /\ IF existName(Parser, Obj.Id)
       THEN Logs' = pusherrtok(Parser, <<objIndex + 1>>, "exist_id").Logs
            /\ UNCHANGED waitingGlobalVars
       ELSE waitingGlobalVars' = Append(waitingGlobalVars, NumVar(Obj.Id))
            /\ UNCHANGED Logs
    /\ UNCHANGED <<Types, Funcs, GlobalVars>>

\* p.WaitingGlobalVars() and p.waitingGlobalVars = nil of checkAsync, once the
\* loop of Parse is over. The token of a variable is <<0>>.
RECURSIVE varsOf(_, _)
varsOf(p, index) ==
    IF index > Len(p.waitingGlobalVars) THEN p
    ELSE LET r == Var(p, p.waitingGlobalVars[index], <<0>>)
         IN  varsOf([r.p EXCEPT !.GlobalVars = Append(@, r.vast)], index + 1)

WaitingGlobalVars ==
    /\ pcFunc = "parse"
    /\ objIndex = Len(Tree)
    /\ LET p == varsOf(Parser, 1)
       IN  /\ Logs' = p.Logs
           /\ GlobalVars' = p.GlobalVars
    /\ waitingGlobalVars' = <<>>
    /\ pcFunc' = "done"
    /\ UNCHANGED <<Tree, objIndex, spawned, Types, Funcs, BlockVars>>
    /\ Keep({"decl", "sink", "tables"})

DeclNext == Type \/ Func \/ GlobalVar \/ WaitingGlobalVars

SpecDecl == DeclInit /\ [][DeclNext]_vars

\* The identifiers registered, in the order Types, Funcs, global variables.
Registered ==
    [i \in 1..Len(Types) |-> Types[i].Id]
    \o [i \in 1..Len(Funcs) |-> Funcs[i].Id]
    \o [i \in 1..Len(GlobalVars) |-> GlobalVars[i].Id]
    \o [i \in 1..Len(waitingGlobalVars) |-> waitingGlobalVars[i].Id]

\* C10: whatever declarations Parse has gone through, no identifier occurs
\* twice among Types, Funcs and the global variables, pending or registered.
C10_UniqueIdentifiers ==
    \A i, j \in 1..Len(Registered) : Registered[i] = Registered[j] => i = j

\* ========================================================================
\* EVALUATOR (src/src/sema/eval.go)
\* ========================================================================
\* A type kind is named: int, u8, str, bool (primitives), *int (pointer),
\* []u8 (slice), [3]int (array), enum, nil (the kind of the nil literal).
\* An evaluation yields [nil, d, errors, panic]: the *Data returned (nil or d),
\* e.s.errors, and whether it ended in a nil dereference.
MaxOps == 2

Prim(k) == k \in {"int", "u8", "str", "bool"}
Is_int(k) == k \in {"int", "u8"}
Is_num(k) == k \in {"int", "u8"}
Ptr(k) == k = "*int"
Slc(k) == k = "[]u8"
Arr(k) == k = "[3]int"
Elem(k) == IF k = "[]u8" THEN "u8" ELSE "int"

Got(d, errs) == [nil |-> FALSE, d |-> d, errors |-> errs, panic |-> FALSE]
GotNil(errs) == [nil |-> TRUE, d |-> NilData.d, errors |-> errs, panic |-> FALSE]

\* Not in src/: a kind is an lvalue kind when it is a reference, a pointer, a
\* slice or a map; it is mutable when it is a slice, a pointer or a reference.
is_lvalue(k) == Ptr(k) \/ Slc(k)
is_mut(k) == Slc(k) \/ Ptr(k)

\* Not in src/: the address can be taken of an addressable expression.
can_get_ptr(d) == d.Lvalue /\ ~d.Constant /\ d.Kind # "enum"

\* Not in src/: a slice can be passed as variadic.
is_variadicable(k) == Slc(k)

check_data_for_integer_indexing(d) ==
    IF ~Prim(d.Kind) THEN "invalid_expr"
    ELSE IF ~Is_int(d.Kind) THEN "invalid_expr"
    ELSE IF d.Constant /\ FALSE THEN "overflow_limits"
    ELSE ""

eval_lit(lit, errs) ==
    Got(Data(IF lit = "nil" THEN "nil" ELSE IF lit = "s" THEN "str"
             ELSE IF lit = "true" THEN "bool" ELSE "int",
             FALSE, FALSE, TRUE, FALSE), errs)

\* The definitions in scope (e.lookup): variables v, p, sl, ar, constants c,
\* cs, n (`const n = -1`), the enum E; u is not defined.
get_def(ident) ==
    IF ident = "v" THEN [def |-> "Var", Constant |-> FALSE, Mutable |-> TRUE, Kind |-> "int"]
    ELSE IF ident = "p" THEN [def |-> "Var", Constant |-> FALSE, Mutable |-> TRUE, Kind |-> "*int"]
    ELSE IF ident = "sl" THEN [def |-> "Var", Constant |-> FALSE, Mutable |-> TRUE, Kind |-> "[]u8"]
    ELSE IF ident = "ar" THEN [def |-> "Var", Constant |-> FALSE, Mutable |-> FALSE, Kind |-> "[3]int"]
    ELSE IF ident \in {"c", "n"}
    THEN [def |-> "Var", Constant |-> TRUE, Mutable |-> FALSE, Kind |-> "int"]
    ELSE IF ident = "cs" THEN [def |-> "Var", Constant |-> TRUE, Mutable |-> FALSE, Kind |-> "str"]
    ELSE IF ident = "E" THEN [def |-> "Enum", Constant |-> FALSE, Mutable |-> FALSE, Kind |-> "enum"]
    ELSE [def |-> "nil", Constant |-> FALSE, Mutable |-> FALSE, Kind |-> "nil"]

eval_enum(enm, errs) == Got(Data("enum", FALSE, FALSE, FALSE, TRUE), errs)

eval_var(v, errs) == Got(Data(v.Kind, v.Mutable, ~v.Constant, v.Constant, FALSE), errs)

eval_def(def, errs) ==
    IF def.def = "Var" THEN eval_var(def, errs)
    ELSE IF def.def = "Enum" THEN eval_enum(def, errs)
    ELSE GotNil(Append(errs, "ident_not_exist"))

eval_ident(ident, errs) == eval_def(get_def(ident), errs)

\* eval_expr_kind on an expression without operands.
eval_leaf(leaf, errs) ==
    IF leaf.lit THEN eval_lit(leaf.v, errs) ELSE eval_ident(leaf.v, errs)

eval_unary_minus(d, errs) ==
    IF ~Prim(d.Kind) \/ ~Is_num(d.Kind) THEN GotNil(errs) ELSE Got(d, errs)

eval_unary_caret(d, errs) ==
    IF ~Prim(d.Kind) \/ ~Is_int(d.Kind) THEN GotNil(errs) ELSE Got(d, errs)

eval_unary_excl(d, errs) ==
    IF d.Kind # "bool" THEN GotNil(errs) ELSE Got(d, errs)

eval_unary_star(d, unsafe, errs) ==
    LET errs1 == IF ~unsafe THEN Append(errs, "unsafe_behavior_at_out_of_unsafe_scope")
                 ELSE errs
    IN  IF ~Ptr(d.Kind) THEN GotNil(errs1)
        ELSE Got([d EXCEPT !.Constant = FALSE, !.Lvalue = TRUE], errs1)

eval_unary_amper(d, errs) ==
    IF ~can_get_ptr(d) THEN GotNil(errs)
    ELSE Got([d EXCEPT !.Constant = FALSE, !.Lvalue = TRUE, !.Mutable = TRUE], errs)

\* eval_unary once its operand has been evaluated to r.
eval_unary(op, r, unsafe) ==
    IF r.nil THEN r
    ELSE LET u == IF op \in {"-", "+"} THEN eval_unary_minus(r.d, r.errors)
                  ELSE IF op = "^" THEN eval_unary_caret(r.d, r.errors)
                  ELSE IF op = "!" THEN eval_unary_excl(r.d, r.errors)
                  ELSE IF op = "*" THEN eval_unary_star(r.d, unsafe, r.errors)
                  ELSE IF op = "&" THEN eval_unary_amper(r.d, r.errors)
                  ELSE GotNil(r.errors)
         IN  IF u.nil THEN GotNil(Append(u.errors, "invalid_expr_unary_operator")) ELSE u

eval_variadic(r) ==
    IF r.nil THEN r
    ELSE IF ~is_variadicable(r.d.Kind)
    THEN GotNil(Append(r.errors, "variadic_with_non_variadicable"))
    ELSE Got([r.d EXCEPT !.Variadiced = TRUE], r.errors)

\* check_integer_indexing_by_data: e.s.errors after it.
check_integer_indexing_by_data(d, errs) ==
    IF check_data_for_integer_indexing(d) # ""
    THEN Append(errs, check_data_for_integer_indexing(d)) ELSE errs

\* check_integer_indexing on the index expression: e.s.errors after it.
check_integer_indexing(index, errs) ==
    LET r == eval_leaf(index, errs)
    IN  IF r.nil THEN r.errors ELSE check_integer_indexing_by_data(r.d, r.errors)

indexing_ptr(d, index, unsafe, errs) ==
    LET errs1 == check_integer_indexing(index, errs)
    IN  IF ~unsafe
        THEN Got([d EXCEPT !.Kind = Elem(d.Kind)],
                 Append(errs1, "unsafe_behavior_at_out_of_unsafe_scope"))
        ELSE Got([d EXCEPT !.Kind = Elem(d.Kind)], errs1)

indexing_arr(d, index, errs) ==
    Got([d EXCEPT !.Kind = Elem(d.Kind)], check_integer_indexing(index, errs))

indexing_slc(d, index, errs) ==
    Got([d EXCEPT !.Kind = Elem(d.Kind)], check_integer_indexing(index, errs))

indexing_str(d, index, errs) ==
    LET byte == [d EXCEPT !.Kind = "u8"]
        i == eval_leaf(index, errs)
    IN  IF i.nil THEN Got(byte, i.errors)
        ELSE IF ~i.d.Constant
        THEN Got([byte EXCEPT !.Constant = FALSE], check_integer_indexing_by_data(i.d, i.errors))
        ELSE Got(byte, check_integer_indexing_by_data(i.d, i.errors))

to_indexing(d, index, unsafe, errs) ==
    IF Ptr(d.Kind) THEN indexing_ptr(d, index, unsafe, errs)
    ELSE IF Arr(d.Kind) THEN indexing_arr(d, index, errs)
    ELSE IF Slc(d.Kind) THEN indexing_slc(d, index, errs)
    ELSE IF d.Kind = "str" THEN indexing_str(d, index, errs)
    ELSE Got(d, Append(errs, "not_supports_indexing"))

eval_indexing(index, r, unsafe) ==
    IF r.nil THEN r ELSE to_indexing(r.d, index, unsafe, r.errors)

\* eval_slicing_exprs with s.To = nil: e.s.errors after it. start is <<>>
\* for s.Start = nil, else the start expression.
eval_slicing_exprs(start, errs) ==
    IF start = <<>> THEN errs ELSE check_integer_indexing(start[1], errs)

\* d.Kind.Slc() is nil for an array: its Elem is a nil dereference.
slicing_arr(d, start, errs) ==
    [Got([d EXCEPT !.Lvalue = FALSE], eval_slicing_exprs(start, errs)) EXCEPT !.panic = TRUE]

slicing_slc(d, start, errs) ==
    Got([d EXCEPT !.Lvalue = FALSE], eval_slicing_exprs(start, errs))

slicing_str(d, start, errs) ==
    Got([d EXCEPT !.Lvalue = FALSE],
        IF ~d.Constant THEN errs ELSE eval_slicing_exprs(start, errs))

check_slicing(d, start, errs) ==
    IF Arr(d.Kind) THEN slicing_arr(d, start, errs)
    ELSE IF Slc(d.Kind) THEN slicing_slc(d, start, errs)
    ELSE IF d.Kind = "str" THEN slicing_str(d, start, errs)
    ELSE Got(d, Append(errs, "not_supports_slicing"))

eval_slicing(start, r) ==
    IF r.nil THEN r ELSE check_slicing(r.d, start, r.errors)

cast_ptr(t, d, unsafe, errs) ==
    IF ~unsafe THEN Got(d, Append(errs, "unsafe_behavior_at_out_of_unsafe_scope"))
    ELSE Got([d EXCEPT !.Constant = FALSE],
             IF ~Ptr(d.Kind) /\ (~Prim(d.Kind) \/ ~Is_int(d.Kind))
             THEN Append(errs, "type_not_supports_casting_to") ELSE errs)

cast_slc(t, d, errs) ==
    IF d.Kind # "str" THEN Got(d, Append(errs, "type_not_supports_casting_to"))
    ELSE IF Elem(t) \notin {"u8", "i32"}
    THEN Got(d, Append(errs, "type_not_supports_casting_to"))
    ELSE Got(d, errs)

cast_str(d, errs) ==
    IF Prim(d.Kind)
    THEN Got(d, IF d.Kind \notin {"u8", "i32"}
                THEN Append(errs, "type_not_supports_casting_to") ELSE errs)
    ELSE IF ~Slc(d.Kind) THEN Got(d, Append(errs, "type_not_supports_casting_to"))
    ELSE Got(d, IF Elem(d.Kind) \notin {"u8", "i32"}
                THEN Append(errs, "type_not_supports_casting_to") ELSE errs)

\* The enum of the scope is not of a numeric kind; int is the platform's
\* int, none of the kinds a pointer casts to.
cast_int(t, d, unsafe, errs) ==
    IF Ptr(d.Kind)
    THEN Got(d, IF ~unsafe THEN Append(errs, "unsafe_behavior_at_out_of_unsafe_scope")
                ELSE Append(errs, "type_not_supports_casting_to"))
    ELSE IF Prim(d.Kind) /\ Is_num(d.Kind) THEN Got(d, errs)
    ELSE Got(d, Append(errs, "type_not_supports_casting_to"))

cast_prim(t, d, unsafe, errs) ==
    IF t = "str" THEN cast_str(d, errs)
    ELSE IF Is_int(t) THEN cast_int(t, d, unsafe, errs)
    ELSE Got(d, Append(errs, "type_not_supports_casting"))

eval_cast(t, r, unsafe) ==
    IF r.nil THEN r
    ELSE LET c == IF Ptr(t) THEN cast_ptr(t, r.d, unsafe, r.errors)
                  ELSE IF Slc(t) THEN cast_slc(t, r.d, r.errors)
                  ELSE IF Prim(t) THEN cast_prim(t, r.d, unsafe, r.errors)
                  ELSE Got(r.d, Append(r.errors, "type_not_supports_casting"))
         IN  Got([c.d EXCEPT !.Lvalue = is_lvalue(t), !.Mutable = is_mut(t)], c.errors)

\* What an evaluation yields together with e.unsafety as it leaves it.
WithUnsafety(r, flag) ==
    [nil |-> r.nil, d |-> r.d, errors |-> r.errors, panic |-> r.panic, unsafety |-> flag]

\* eval_unsafe once its operand has been evaluated to r with e.unsafety set:
\* the flag is put back to the value saved on entry.
eval_unsafeKeepsFlag(saved, r) == r

eval_unsafe(saved, r) == [r EXCEPT !.unsafety = saved]

\* eval_expr_kind on the operand chain ops[i..] over leaf, entered with
\* e.unsafety = flag. An operator is applied after its operand has been
\* evaluated, with the flag that evaluation left.
RECURSIVE eval_expr_kind(_, _, _, _)
eval_expr_kind(ex, i, flag, errs) ==
    IF i > Len(ex.ops) THEN WithUnsafety(eval_leaf(ex.leaf, errs), flag)
    ELSE LET o == ex.ops[i]
             r == eval_expr_kind(ex, i + 1, flag \/ o.op = "unsafe", errs)
         IN  IF r.panic THEN r
             ELSE IF o.op = "unsafe" THEN eval_unsafe(flag, r)
             ELSE WithUnsafety(
                 IF o.op = "unary" THEN eval_unary(o.arg, r, r.unsafety)
                 ELSE IF o.op = "variadic" THEN eval_variadic(r)
                 ELSE IF o.op = "indexing"
                 THEN eval_indexing([lit |-> o.arg \in {"0", "s"}, v |-> o.arg], r, r.unsafety)
                 ELSE IF o.op = "slicing"
                 THEN eval_slicing(IF o.arg = "" THEN <<>> ELSE <<[lit |-> TRUE, v |-> o.arg]>>, r)
                 ELSE eval_cast(o.arg, r, r.unsafety),
                 r.unsafety)

eval(ex, flag, errs) ==
    LET r == eval_expr_kind(ex, 1, flag, errs)
    IN  IF r.panic \/ r.nil THEN r
        ELSE IF r.d.Decl THEN WithUnsafety(GotNil(Append(r.errors, "invalid_expr")), r.unsafety)
        ELSE r

Leaves ==
    [lit : {TRUE}, v : {"0", "s", "nil", "true"}]
    \cup [lit : {FALSE}, v : {"v", "p", "sl", "ar", "c", "cs", "E", "u"}]

Ops ==
    [op : {"unary"}, arg : {"-", "+", "^", "!", "*", "&"}]
    \cup [op : {"unsafe", "variadic"}, arg : {""}]
    \cup [op : {"indexing"}, arg : {"0", "v", "s", "n"}]
    \cup [op : {"slicing"}, arg : {"", "0", "s"}]
    \cup [op : {"cast"}, arg : {"int", "str", "*int", "[]u8"}]

EvalInit ==
    /\ Expr \in [leaf : Leaves, ops : SeqsUpTo(Ops, MaxOps)]
    /\ data = NilData
    /\ errors = <<>>
    /\ unsafety = FALSE
    /\ pcEval = "eval"
    /\ IdleBut({"eval"})

\* e.eval(expr)
Eval ==
    /\ pcEval = "eval"
    /\ LET r == eval(Expr, unsafety, errors)
       IN  /\ data' = [nil |-> r.nil, d |-> r.d]
           /\ errors' = r.errors
           /\ unsafety' = r.unsafety
           /\ pcEval' = IF r.panic THEN "panic" ELSE "done"
    /\ UNCHANGED Expr
    /\ Keep({"eval"})

SpecEval == EvalInit /\ [][Eval]_vars

\* C9: the Data eval returns is never both constant and an lvalue, with or
\* without a diagnostic pushed.
C9_ConstantNotLvalue ==
    pcEval = "done" /\ ~data.nil => ~(data.d.Constant /\ data.d.Lvalue)

\* ========================================================================
\* CHECK TASKS (src/parser/parser.go, Parse and the functions it starts)
\* ========================================================================
\* A task is a goroutine: [fn, pc, todo, load] and the arguments of fn. Its
\* function runs up to its next diagnostics and starts in one step and leaves
\* them in todo, the events it has yet to carry out one by one:
\*   [ev |-> "push", entry]  p.PFI.Logs = append(p.PFI.Logs, entry)
\*   [ev |-> "go", task]     p.wg.Add(1); go task
\*   [ev |-> "done"]         p.wg.Done()
\* The append of a push is not atomic: it loads the slice (load = <<Logs>>)
\* and later stores the slice it has made from what it loaded.
MaxStmts == 1

Task(fn, args) == [fn |-> fn, pc |-> "start", todo |-> <<>>, load |-> <<>>] @@ args

NoArgs == [errtok |-> <<>>]

\* The task a `go` statement of the checked code starts.
NewTask(g) ==
    IF g.task = "checkAssignTypeAsync"
    THEN Task(g.task, [constant |-> g.constant, t |-> g.t, v |-> g.v, errtok |-> g.errtok])
    ELSE Task(g.task, [real |-> g.real, check |-> g.check, errtok |-> g.errtok])

PushEv(entry) == [ev |-> "push", entry |-> entry]
GoEv(task) == [ev |-> "go", task |-> task]
DoneEv == [ev |-> "done"]

\* The diagnostics and the starts of st in the order they were made.
RECURSIVE EventsFrom(_, _, _)
EventsFrom(st, i, j) ==
    IF j < Len(st.spawned) /\ st.spawned[j + 1].at <= i
    THEN <<GoEv(NewTask(st.spawned[j + 1]))>> \o EventsFrom(st, i, j + 1)
    ELSE IF i < Len(st.Logs)
    THEN <<PushEv(st.Logs[i + 1])>> \o EventsFrom(st, i + 1, j)
    ELSE <<>>

Events(st) == EventsFrom(st, 0, 0)

\* The parser as a function sees it when it starts, with nothing pushed or
\* started by it yet.
Local == [Parser EXCEPT !.Logs = <<>>, !.spawned = <<>>]

typeIsPtr(t) == t.Value # <<>> /\ t.Value[1] = "*"

typeIsArray(t) == t.Value # <<>> /\ t.Value[1] = "[]"

typeIsSingle(dt) == ~typeIsPtr(dt) /\ ~typeIsArray(dt) /\ dt.Code # "Func"

typeIsNilCompatible(t) == t.Code = "Func" \/ typeIsPtr(t)

\* arrT is the array type of the two when one is an array.
checkArrayCompatiblity(arrT, t) == t.Code = "Nil" \/ arrT.Value = t.Value

\* x.TypesAreCompatible is equality of the codes on the built-in types of the
\* model.
typesAreCompatible(t1, t2, ignoreany) ==
    IF typeIsArray(t1) \/ typeIsArray(t2)
    THEN IF typeIsArray(t2) THEN checkArrayCompatiblity(t2, t1)
         ELSE checkArrayCompatiblity(t1, t2)
    ELSE IF typeIsNilCompatible(t1) \/ typeIsNilCompatible(t2)
    THEN t1.Code = "Nil" \/ t2.Code = "Nil"
    ELSE t1.Code = t2.Code

\* The body of checkTypeAsync, without its deferred wg.Done.
checkTypeAsyncBody(p, real, check, ignoreAny, errToken) ==
    LET r == readyType(p, real, TRUE)
        c == readyType(r.p, check, TRUE)
    IN  IF ~r.ok THEN r.p
        ELSE IF ~c.ok THEN c.p
        ELSE IF ~ignoreAny /\ r.dt.Code = "Any" THEN c.p
        ELSE IF r.dt.MultiTyped \/ c.dt.MultiTyped
        THEN goTask(c.p, [task |-> "checkMultiTypeAsync", real |-> r.dt,
                          check |-> c.dt, errtok |-> errToken])
        ELSE IF typeIsSingle(r.dt) /\ typeIsSingle(c.dt)
        THEN IF ~typesAreCompatible(r.dt, c.dt, ignoreAny)
             THEN pusherrtok(c.p, errToken, "incompatible_datatype")
             ELSE c.p
        ELSE IF (typeIsPtr(r.dt) \/ typeIsArray(r.dt)) /\ c.dt.Code = "Nil" THEN c.p
        ELSE IF r.dt.Value # c.dt.Value
        THEN pusherrtok(c.p, errToken, "incompatible_datatype")
        ELSE c.p

\* The body of checkMultiTypeAsync, without its deferred wg.Done: the events.
\* checkTypeAsync is called, not started: its deferred wg.Done runs with it.
checkMultiTypeAsyncBody(p, real, check, ignoreAny, errToken) ==
    LET realTypes == real.Tag
        checkTypes == real.Tag
        RECURSIVE each(_)
        each(index) ==
            IF index > Len(realTypes) THEN <<>>
            ELSE Events(checkTypeAsyncBody(p, realTypes[index], checkTypes[index],
                                           ignoreAny, errToken))
                 \o <<DoneEv>> \o each(index + 1)
    IN  IF real.MultiTyped # check.MultiTyped
        THEN Events(pusherrtok(p, errToken, "incompatible_datatype"))
        ELSE IF Len(realTypes) # Len(checkTypes)
        THEN Events(pusherrtok(p, errToken, "incompatible_datatype"))
        ELSE each(1)

\* The body of checkAssignTypeAsync: the only number of the model, 1, fits
\* every integer type.
checkAssignTypeAsyncBody(p, constant, t, v, errtok) ==
    LET p1 == checkAssignConst(p, constant, t, v, errtok)
    IN  IF v.data = "1" /\ t.Code = "I32" THEN p1
        ELSE goTask(p1, [task |-> "checkTypeAsync", real |-> t, check |-> v.type,
                         errtok |-> errtok])

\* checkEntryPointSpecialCases on a function without parameters or
\* attributes; the token of its return type is <<-2>>.
checkEntryPointSpecialCases(p, f) ==
    IF f.RetType.Code # "Void" THEN pusherrtok(p, <<-2>>, "entrypoint_have_return")
    ELSE p

\* The loop of checkTypesAsync.
RECURSIVE readyTypes(_, _)
readyTypes(p, index) ==
    IF index > Len(p.Types) THEN p
    ELSE readyTypes(readyType(p, p.Types[index].Type, TRUE).p, index + 1)

\* ---- the program Parse has read ------------------------------------------
\* The statements of main: a = "s" and m = g().
Assignment(id, expr) ==
    [kind |-> "Assign",
     assign |-> [Setter |-> "=", JustDeclare |-> FALSE,
                 SelectExprs |-> <<[Id |-> id, NewVariable |-> FALSE]>>,
                 ValueExprs |-> <<expr>>]]

Stmts == {Assignment("a", [kind |-> "lit", id |-> "s"]),
          Assignment("m", [kind |-> "call", id |-> "g"])}

\* fn g() (i32, i32) {} and fn main() or fn main() i32.
FuncG == [Id |-> "g", RetType |-> MultiType(2), Block |-> <<>>]
FuncMain(rt, b) == [Id |-> "main", RetType |-> rt, Block |-> b]

\* The state when the loop of Parse over the declarations is over: the global
\* variable a: i32 = 1 or m := g(), the function g and maybe main and, when
\* main returns nothing, maybe a type T that names an unknown type.
ParInit ==
    /\ justDefs \in BOOLEAN
    /\ waitingGlobalVars \in
           {<<>>, <<AstVar("a", FALSE, I32Type, TRUE, NumExpr)>>,
            <<AstVar("m", FALSE, VoidType, TRUE, [kind |-> "call", id |-> "g"])>>}
    /\ \E b \in SeqsUpTo(Stmts, MaxStmts) : \E rt \in {VoidType, I32Type} :
          Funcs \in {<<FuncG>>, <<FuncG, FuncMain(rt, b)>>}
    /\ Types \in IF Len(Funcs) = 2 /\ Funcs[2].RetType = I32Type THEN {<<>>}
                 ELSE {<<>>, <<[Id |-> "T", Type |-> NameType("U")]>>}
    /\ GlobalVars = <<>>
    /\ BlockVars = <<>>
    /\ Logs = <<>>
    /\ spawned = <<>>
    /\ pcFunc = "parse"
    /\ wg = 0
    /\ tasks = EmptyBag
    /\ pushed = EmptyBag
    /\ IdleBut({"sink", "tables", "par"})

\* ---- the steps of a task --------------------------------------------------
Running == IF pcFunc = "panic" THEN {} ELSE BagToSet(tasks)

Become(t, u) == (tasks (-) SetToBag({t})) (+) SetToBag({u})

\* t is at the start of fn.
AtStart(t, fn) == t.fn = fn /\ t.pc = "start"

\* t has run its function: todo are its events, the deferred wg.Done last.
Ran(t, todo) == [t EXCEPT !.pc = "end", !.todo = todo \o <<DoneEv>>]

\* t is at an event of the kind ev.
AtEvent(t, ev) == t.todo # <<>> /\ Head(t.todo).ev = ev

\* pusherrtok, pusherr: the load of p.PFI.Logs ...
pusherrtokLoad ==
    \E t \in Running :
        /\ AtEvent(t, "push")
        /\ t.load = <<>>
        /\ tasks' = Become(t, [t EXCEPT !.load = <<Logs>>])
        /\ UNCHANGED <<justDefs, wg, pushed, sinkVars, tableVars>>
        /\ Keep({"sink", "tables", "par"})

\* ... and the store of the appended slice.
pusherrtokStore ==
    \E t \in Running :
        /\ AtEvent(t, "push")
        /\ t.load # <<>>
        /\ Logs' = Append(t.load[1], Head(t.todo).entry)
        /\ pushed' = pushed (+) SetToBag({Head(t.todo).entry})
        /\ tasks' = Become(t, [t EXCEPT !.load = <<>>, !.todo = Tail(@)])
        /\ UNCHANGED <<justDefs, wg, spawned, pcFunc, tableVars>>
        /\ Keep({"sink", "tables", "par"})

\* p.wg.Add(1); go task
Go ==
    \E t \in Running :
        /\ AtEvent(t, "go")
        /\ wg' = wg + 1
        /\ tasks' = Become(t, [t EXCEPT !.todo = Tail(@)]) (+) SetToBag({Head(t.todo).task})
        /\ UNCHANGED <<justDefs, pushed, sinkVars, tableVars>>
        /\ Keep({"sink", "tables", "par"})

\* p.wg.Done(): a negative counter panics. The task is over with its last
\* event.
Done ==
    \E t \in Running :
        /\ AtEvent(t, "done")
        /\ wg' = wg - 1
        /\ pcFunc' = IF wg - 1 < 0 THEN "panic" ELSE pcFunc
        /\ tasks' = IF Tail(t.todo) = <<>> /\ t.pc = "end"
                    THEN tasks (-) SetToBag({t})
                    ELSE Become(t, [t EXCEPT !.todo = Tail(@)])
        /\ UNCHANGED <<justDefs, pushed, Logs, spawned, tableVars>>
        /\ Keep({"sink", "tables", "par"})

\* ---- Parse and the functions it starts ---------------------------------------
\* Parse after its loop: p.wg.Add(1); go p.checkAsync() ...
ParseCheck ==
    /\ pcFunc = "parse"
    /\ wg' = wg + 1
    /\ tasks' = tasks (+) SetToBag({Task("checkAsync", NoArgs)})
    /\ pcFunc' = "wait"
    /\ UNCHANGED <<justDefs, pushed, Logs, spawned, tableVars>>
    /\ Keep({"sink", "tables", "par"})

\* ... and p.wg.Wait(): Parse returns when the counter is zero.
ParseWait ==
    /\ pcFunc = "wait"
    /\ wg = 0
    /\ pcFunc' = "returned"
    /\ UNCHANGED <<parVars, Logs, spawned, tableVars>>
    /\ Keep({"sink", "tables", "par"})

\* Mutant of checkEntryPoint: justDefs is not looked at.
checkEntryPointAlways(p, jd) ==
    IF FuncById(p, "main") = <<>>
    THEN <<PushEv([tok |-> <<>>, key |-> "no_entry_point"])>>
    ELSE <<>>

\* The first statement of checkAsync: the events of its pusherr.
checkEntryPoint(p, jd) ==
    IF ~jd /\ FuncById(p, "main") = <<>>
    THEN <<PushEv([tok |-> <<>>, key |-> "no_entry_point"])>>
    ELSE <<>>

checkAsync ==
    \E t \in Running :
        /\ AtStart(t, "checkAsync")
        /\ LET noEntry == checkEntryPoint(Local, justDefs)
               p == varsOf(Local, 1)
           IN  /\ GlobalVars' = p.GlobalVars
               /\ waitingGlobalVars' = <<>>
               /\ tasks' = Become(t, Ran(t,
                      noEntry \o <<GoEv(Task("checkTypesAsync", NoArgs))>> \o Events(p)
                      \o IF ~justDefs THEN <<GoEv(Task("checkFuncsAsync", [index |-> 0]))>>
                         ELSE <<>>))
        /\ UNCHANGED <<justDefs, wg, pushed, sinkVars, Types, Funcs, BlockVars>>
        /\ Keep({"sink", "tables", "par"})

checkTypesAsync ==
    \E t \in Running :
        /\ AtStart(t, "checkTypesAsync")
        /\ tasks' = Become(t, Ran(t, Events(readyTypes(Local, 1))))
        /\ UNCHANGED <<justDefs, wg, pushed, sinkVars, tableVars>>
        /\ Keep({"sink", "tables", "par"})

\* One turn of the loop of checkFuncsAsync, on the function at index; the
\* functions have no parameters.
checkFuncsAsync ==
    \E t \in Running :
        /\ AtStart(t, "checkFuncsAsync")
        /\ t.todo = <<>>
        /\ IF t.index < Len(Funcs)
           THEN LET f == Funcs[t.index + 1]
                    st == checkFunc(f, [Local EXCEPT !.BlockVars = <<>>]
                                       @@ [iterCount |-> 0, panicked |-> FALSE])
                IN  /\ BlockVars' = st.BlockVars
                    /\ tasks' = Become(t, [t EXCEPT
                           !.index = @ + 1,
                           !.todo = <<GoEv(Task("checkFuncSpecialCasesAsync",
                                                [f |-> f]))>> \o Events(st)])
           ELSE /\ tasks' = Become(t, Ran(t, <<>>))
                /\ UNCHANGED BlockVars
        /\ UNCHANGED <<justDefs, wg, pushed, sinkVars, Types, Funcs, GlobalVars,
                       waitingGlobalVars>>
        /\ Keep({"sink", "tables", "par"})

checkFuncSpecialCasesAsync ==
    \E t \in Running :
        /\ AtStart(t, "checkFuncSpecialCasesAsync")
        /\ tasks' = Become(t, Ran(t,
               IF t.f.Id = "main" THEN Events(checkEntryPointSpecialCases(Local, t.f))
               ELSE <<>>))
        /\ UNCHANGED <<justDefs, wg, pushed, sinkVars, tableVars>>
        /\ Keep({"sink", "tables", "par"})

checkAssignTypeAsync ==
    \E t \in Running :
        /\ AtStart(t, "checkAssignTypeAsync")
        /\ tasks' = Become(t, Ran(t,
               Events(checkAssignTypeAsyncBody(Local, t.constant, t.t, t.v, t.errtok))))
        /\ UNCHANGED <<justDefs, wg, pushed, sinkVars, tableVars>>
        /\ Keep({"sink", "tables", "par"})

checkTypeAsync ==
    \E t \in Running :
        /\ AtStart(t, "checkTypeAsync")
        /\ tasks' = Become(t, Ran(t,
               Events(checkTypeAsyncBody(Local, t.real, t.check, FALSE, t.errtok))))
        /\ UNCHANGED <<justDefs, wg, pushed, sinkVars, tableVars>>
        /\ Keep({"sink", "tables", "par"})

checkMultiTypeAsync ==
    \E t \in Running :
        /\ AtStart(t, "checkMultiTypeAsync")
        /\ tasks' = Become(t, Ran(t,
               checkMultiTypeAsyncBody(Local, t.real, t.check, FALSE, t.errtok)))
        /\ UNCHANGED <<justDefs, wg, pushed, sinkVars, tableVars>>
        /\ Keep({"sink", "tables", "par"})

ParNext ==
    \/ ParseCheck \/ ParseWait
    \/ checkAsync \/ checkTypesAsync \/ checkFuncsAsync \/ checkFuncSpecialCasesAsync
    \/ checkAssignTypeAsync \/ checkTypeAsync \/ checkMultiTypeAsync
    \/ pusherrtokLoad \/ pusherrtokStore \/ Go \/ Done

SpecPar == ParInit /\ [][ParNext]_vars

\* C1: Parse returns only after every check task has finished: once Parse has
\* returned, no diagnostic is appended to PFI.Logs.
C1_NoLogAfterParseReturned == [][pcFunc = "returned" => Logs' = Logs]_vars

\* How many times e occurs in the sequence s.
Count(s, e) == Cardinality({i \in 1..Len(s) : s[i] = e})

\* C2: when Parse has returned and the tasks are over, every diagnostic pushed
\* is in PFI.Logs exactly as many times as it was pushed, whatever the
\* interleaving of the tasks.
C2_EveryDiagnosticOnce ==
    (pcFunc = "returned" /\ tasks = EmptyBag) =>
        /\ Len(Logs) = BagCardinality(pushed)
        /\ \A e \in BagToSet(pushed) : Count(Logs, e) = CopiesIn(e, pushed)

\* C3: no task writes the tables of the parser: once Parse has started
\* checkAsync and only waits, Types, Funcs, GlobalVars, waitingGlobalVars and
\* BlockVars stay as they are.
C3_TasksOnlyReadTables == [][pcFunc # "parse" => tableVars' = tableVars]_vars

\* ========================================================================
\* CALLS (src/parser/parser.go, parseFuncCall and parseArgs)
\* ========================================================================
\* A parameter is [Variadic, Const, Type], an argument [Expr, Variadic] where
\* Variadic tells that the value of Expr is a spread (value.variadic). The
\* token of the call is <<0>>, the token of its i-th argument <<i>>.
MaxParams == 3
MaxArgs == 3

\* Mutant of parseArg: the flag takes the last argument's value.variadic.
parseArgLastSpread(p, param, arg, tok, variadiced) ==
    LET r == evalExpr(p, arg.Expr, tok)
    IN  [p |-> goTask(r.p, [task |-> "checkArgTypeAsync", param |-> param,
                            val |-> r.v, errtok |-> tok]),
         variadiced |-> IF variadiced # <<>> THEN <<arg.Variadic>> ELSE variadiced]

\* parseArg: [p, variadiced]; variadiced is <<>> for the nil pointer, else
\* the one flag it points to.
parseArg(p, param, arg, tok, variadiced) ==
    LET r == evalExpr(p, arg.Expr, tok)
    IN  [p |-> goTask(r.p, [task |-> "checkArgTypeAsync", param |-> param,
                            val |-> r.v, errtok |-> tok]),
         variadiced |-> IF variadiced # <<>> /\ ~variadiced[1]
                        THEN <<arg.Variadic>> ELSE variadiced]

\* The loop at the label argParse over the arguments args.
RECURSIVE argParse(_, _, _, _)
argParse(p, params, args, index) ==
    IF index > Len(args) THEN p
    ELSE argParse(parseArg(p, params[index], args[index], <<index>>, <<>>).p,
                  params, args, index + 1)

\* The deferred function of parseArgs on the variadic arguments, the first of
\* them the argument number first + 1 of the call.
RECURSIVE variadicArgsLoop(_, _, _, _, _, _)
variadicArgsLoop(p, variadicParam, variadicArgs, first, index, variadiced) ==
    IF index > Len(variadicArgs)
    THEN IF variadiced[1] /\ Len(variadicArgs) > 1
         THEN pusherrtok(p, <<0>>, "more_args_with_varidiced") ELSE p
    ELSE LET r == parseArg(p, variadicParam, variadicArgs[index], <<first + index>>,
                           variadiced)
         IN  variadicArgsLoop(r.p, variadicParam, variadicArgs, first, index + 1,
                              r.variadiced)

\* The part of parseArgs after its variadic prologue.
parseArgsCount(p, params, args, errTok) ==
    IF Len(args) = 0 /\ Len(params) = 0 THEN p
    ELSE IF Len(args) < Len(params)
    THEN argParse(pusherrtok(p, errTok, "missing_argument"), params, args, 1)
    ELSE IF Len(args) > Len(params)
    THEN pusherrtok(p, errTok, "argument_overflow")
    ELSE argParse(p, params, args, 1)

parseArgs(p, params, args, errTok) ==
    LET m == Len(params)
    IN  IF m > 0 /\ params[m].Variadic
        THEN IF Len(args) = 0 /\ m = 1 THEN p
             ELSE IF Len(args) < m - 1
             THEN argParse(pusherrtok(p, errTok, "missing_argument"), params, args, 1)
             ELSE IF Len(args) <= m - 1 THEN argParse(p, params, args, 1)
             ELSE variadicArgsLoop(
                      parseArgsCount(p, SubSeq(params, 1, m - 1),
                                     SubSeq(args, 1, m - 1), errTok),
                      params[m], SubSeq(args, m, Len(args)), m - 1, 1, <<FALSE>>)
        ELSE parseArgsCount(p, params, args, errTok)

\* parseFuncCall on the arguments the builder has split.
parseFuncCall(p, f, args) == parseArgs(p, f.Params, args, <<0>>)

Param(variadic) == [Variadic |-> variadic, Const |-> FALSE, Type |-> I32Type]

\* A function of up to MaxParams parameters, the last one variadic or not,
\* called with up to MaxArgs arguments, each a number or a spread.
CallInit ==
    /\ \E m \in 0..MaxParams : \E v \in BOOLEAN :
       \E args \in SeqsUpTo([Expr : {NumExpr}, Variadic : BOOLEAN], MaxArgs) :
          /\ m = 0 => ~v
          /\ call = [params |-> [i \in 1..m |-> Param(v /\ i = m)], args |-> args]
    /\ Logs = <<>>
    /\ spawned = <<>>
    /\ pcFunc = "check"
    /\ IdleBut({"call", "sink"})

ParseFuncCall ==
    /\ pcFunc = "check"
    /\ LET p == parseFuncCall(Parser, [Params |-> call.params], call.args)
       IN  /\ Logs' = p.Logs
           /\ spawned' = p.spawned
    /\ pcFunc' = "done"
    /\ UNCHANGED call
    /\ Keep({"call", "sink"})

SpecCall == CallInit /\ [][ParseFuncCall]_vars

\* How many diagnostics with the key are in Logs.
Emitted(key) == Cardinality({i \in 1..Len(Logs) : Logs[i].key = key})

LastVariadic == call.params # <<>> /\ call.params[Len(call.params)].Variadic

\* The arguments passed for the variadic parameter.
VariadicArgs == SubSeq(call.args, Len(call.params), Len(call.args))

SpreadAmongSeveral ==
    /\ LastVariadic
    /\ Len(VariadicArgs) > 1
    /\ \E i \in 1..Len(VariadicArgs) : VariadicArgs[i].Variadic

C12_NoEntryPoint ==
    LET emitted == Count(Logs, [tok |-> <<>>, key |-> "no_entry_point"])
    IN  /\ emitted <= 1
        /\ justDefs \/ FuncById(Parser, "main") # <<>> => emitted = 0
        /\ pcFunc = "returned" /\ ~justDefs /\ FuncById(Parser, "main") = <<>>
               => emitted = 1

\* Parse has returned for an executable without main, no_entry_point among
\* other diagnostics.
C12_Witness ==
    /\ pcFunc = "returned"
    /\ ~justDefs
    /\ FuncById(Parser, "main") = <<>>
    /\ Len(Logs) > 1
    /\ Count(Logs, [tok |-> <<>>, key |-> "no_entry_point"]) = 1

\* ========================================================================
\* TYPE RESOLUTION (src/parser/parser.go, readyType)
\* ========================================================================
\* The alias table holds `type T i32`, `type U <prefix>T` and
\* `type F func(<param>) <ret>`; the type to resolve is a name of the table
\* behind a prefix of at most MaxPrefix `*` and `[]`, or i32 itself.
MaxPrefix == 2

FuncF(heap, ret) ==
    FuncType(1, ret, DataTypeString([arrays |-> heap], [Params |-> 1, RetType |-> ret]))

TypeInit ==
    /\ \E pt \in {I32Type, NameType("T"), PrefixedName(<<"*">>, "U")},
          upre \in {<<>>, <<"*">>}, ret \in {VoidType, I32Type, NameType("U")} :
           /\ arrays = <<<<pt>>>>
           /\ Types = <<[Id |-> "T", Type |-> I32Type],
                        [Id |-> "U", Type |-> PrefixedName(upre, "T")],
                        [Id |-> "F", Type |-> FuncF(<<<<pt>>>>, ret)]>>
    /\ \/ dtype = I32Type
       \/ \E prefix \in SeqsUpTo({"*", "[]"}, MaxPrefix), id \in {"T", "U", "F"} :
              dtype = PrefixedName(prefix, id)
    /\ resolved = <<>>
    /\ Funcs = <<>>
    /\ GlobalVars = <<>>
    /\ waitingGlobalVars = <<>>
    /\ BlockVars = <<>>
    /\ Logs = <<>>
    /\ spawned = <<>>
    /\ pcFunc = "idle"
    /\ IdleBut({"type", "tables", "sink"})

\* readyType(dt, true), then readyType of what it returned.
ReadyType ==
    /\ Len(resolved) < 2
    /\ LET r == readyType(Parser, IF resolved = <<>> THEN dtype ELSE resolved[1], TRUE)
       IN  /\ resolved' = Append(resolved, r.dt)
           /\ arrays' = r.p.arrays
           /\ Types' = r.p.Types
           /\ Logs' = r.p.Logs
    /\ UNCHANGED <<dtype, spawned, pcFunc, Funcs, GlobalVars, waitingGlobalVars, BlockVars>>
    /\ Keep({"type", "tables", "sink"})

SpecType == TypeInit /\ [][ReadyType]_vars

\* A type together with what its Tag reaches: the parameter types in the
\* backing array and the return type.
RECURSIVE Deep(_, _)
Deep(heap, dt) ==
    IF dt.Code = "Func"
    THEN [dt EXCEPT !.Func =
             [Params |-> [i \in 1..Len(heap[dt.Func.Params]) |->
                              Deep(heap, heap[dt.Func.Params][i])],
              RetType |-> Deep(heap, dt.Func.RetType)]]
    ELSE dt

\* The Name code occurs in the type or in what its Tag reaches.
RECURSIVE HasName(_)
HasName(deep) ==
    \/ deep.Code = "Name"
    \/ /\ deep.Code = "Func"
       /\ \/ \E i \in 1..Len(deep.Func.Params) : HasName(deep.Func.Params[i])
          \/ HasName(deep.Func.RetType)

\* The lexeme of the type with every name replaced by what it stands for.
RECURSIVE Lexeme(_, _)
Lexeme(p, dt) ==
    IF dt.Code = "Name"
    THEN SubSeq(dt.Value, 1, Len(dt.Value) - 1) \o Lexeme(p, Head(typeById(p, dt.Id)).Type)
    ELSE IF dt.Code = "Func"
    THEN LET RECURSIVE params(_)
             params(index) ==
                 IF index > Len(p.arrays[dt.Func.Params]) THEN <<>>
                 ELSE Lexeme(p, p.arrays[dt.Func.Params][index]) \o <<",">>
                          \o params(index + 1)
         IN  <<"(">> \o params(1) \o <<")">> \o Lexeme(p, dt.Func.RetType)
    ELSE dt.Value

\* The alias table with what its types reach.
Aliases(table, heap) == [i \in 1..Len(table) |-> Deep(heap, table[i].Type)]

\* C13: every name of the table resolves, so for every type readyType is
\* idempotent, what it returns holds no Name code, the lexeme returned is the
\* prefix in front of the lexeme of the alias target with its names resolved,
\* and no call of readyType changes the alias table or what its types reach.
C13_ReadyTypeIdempotent ==
    /\ [](/\ Len(resolved) >= 1 =>
                /\ ~HasName(Deep(arrays, resolved[1]))
                /\ dtype.Code = "Name" =>
                       resolved[1].Value =
                           SubSeq(dtype.Value, 1, Len(dtype.Value) - 1)
                               \o Lexeme(Parser, Head(typeById(Parser, dtype.Id)).Type)
          /\ Len(resolved) = 2 => Deep(arrays, resolved[2]) = Deep(arrays, resolved[1]))
    /\ [][Aliases(Types', arrays') = Aliases(Types, arrays)]_vars

\* ========================================================================
\* SOURCES MADE OF LEXEMES (src/unnamed/part_000, Tokenize)
\* ========================================================================
\* The source is up to MaxPieces pieces put one after the other: names,
\* keywords, literals with and without escape sequences, comments, white
\* space and punctuation.
MaxPieces == 3

Pieces ==
    << <<"r">>, <<"1">>, <<";">>, <<" ">>, <<"\n">>, <<"_">>, <<"*">>,
       <<"=", "=">>,
       <<"r", "e", "t">>,
       <<"t", "r", "u", "e">>,
       <<"/", "*", "*", "/">>,
       <<"/", "*", "\n", "*", "/">>,
       <<"'", "r", "'">>,
       <<"\"", "r", "\"">>,
       <<"\"", "\\", "\\", "\"">>,
       <<"\"", "\\", "\"", "r", "\"">> >>

RECURSIVE Flatten(_)
Flatten(ss) == IF ss = <<>> THEN <<>> ELSE Head(ss) \o Flatten(Tail(ss))

SourceInit ==
    /\ \E ps \in SeqsUpTo(1..Len(Pieces), MaxPieces) :
           Content = Flatten([i \in 1..Len(ps) |-> Pieces[ps[i]]])
    /\ LexStart
    /\ IdleBut({"lex"})

SpecSource == SourceInit /\ [][Token]_vars

\* The lexer before the call of Token, and where resume leaves it: at the
\* first character of the next token.
Lexer == [Position |-> Position, Column |-> Column, Line |-> Line, Errors |-> Errors]

Start == resume(Lexer).Position

\* The 1-based column of the character at the 0-based index pos of Content.
ColumnOf(pos) ==
    LET newlines == {i \in 1..pos : i <= Len(Content) /\ Content[i] = "\n"}
    IN  pos + 1 - (IF newlines = {} THEN 0 ELSE CHOOSE i \in newlines : \A j \in newlines : j <= i)

\* The call of Token appends a token and pushes no diagnostic.
Emits == Len(tokens') > Len(tokens) /\ Errors' = Errors

\* C14: the Column of every token Tokenize emits is the source column of the
\* token's first character, and Column + len(Value) - 1 is the source column
\* of the last character the token is made of.
C14_TokenColumn ==
    [][Emits =>
          LET token == tokens'[Len(tokens')]
          IN  /\ token.Column = ColumnOf(Start)
              /\ token.Column + Len(token.Value) - 1 = ColumnOf(Position' - 1)]_vars

\* The 1-based index in Content of the first unescaped `"` at or after index i
\* of the line, 0 when the line ends before: a backslash escapes the
\* character after it.
RECURSIVE ClosingQuote(_)
ClosingQuote(i) ==
    IF i > Len(Content) \/ Content[i] = "\n" THEN 0
    ELSE IF Content[i] = "\"" THEN i
    ELSE IF Content[i] = "\\" THEN ClosingQuote(i + 2)
    ELSE ClosingQuote(i + 1)

\* Token is at a string literal that is terminated on its line.
AtString ==
    /\ Position < Len(Content)
    /\ Start < Len(Content)
    /\ Content[Start + 1] = "\""
    /\ ClosingQuote(Start + 2) # 0

\* C15: the token of a terminated string literal is the source text from the
\* opening quote to the matching unescaped closing quote, and Position is left
\* just after that closing quote, with and without escape sequences.
C15_StringLiteral ==
    [][AtString =>
          /\ Len(tokens') = Len(tokens) + 1
          /\ tokens'[Len(tokens')].Type = "Value"
          /\ tokens'[Len(tokens')].Value = SubSeq(Content, Start + 1, ClosingQuote(Start + 2))
          /\ Position' = ClosingQuote(Start + 2)]_vars

\* The keywords spelled at the start of the next token.
Spelled == {i \in 1..Len(Keywords) : HasPrefix(Drop(Content, Start), Keywords[i].kw)}

\* What follows the keyword spelling is white space, one of ; , ( ) { } [ ]
\* or the end of the source.
Delimited(kw) ==
    LET rest == Drop(Content, Start + Len(kw))
    IN  \/ rest = <<>>
        \/ IsSpace(rest[1])
        \/ rest[1] \in {";", ",", "(", ")", "{", "}", "[", "]"}

\* C16: a keyword spelling at the current position gives a keyword token
\* exactly when it is delimited; otherwise its characters are the start of one
\* identifier token.
C16_KeywordBoundary ==
    [][\A i \in Spelled :
          /\ Position < Len(Content)
          /\ \A j \in Spelled : Len(Keywords[j].kw) <= Len(Keywords[i].kw)
          => /\ Len(tokens') = Len(tokens) + 1
             /\ LET token == tokens'[Len(tokens')]
                IN  IF Delimited(Keywords[i].kw)
                    THEN token.Type = Keywords[i].type /\ token.Value = Keywords[i].kw
                    ELSE /\ token.Type = "Name"
                         /\ HasPrefix(token.Value, <<"_">> \o Keywords[i].kw)]_vars

\* ========================================================================
\* INDEXES AND UNSAFE SCOPES (src/src/sema/eval.go)
\* ========================================================================
\* What the operand of the i-th operator of Expr evaluates to, alone. The
\* operators before it in ops are around it.
InUnsafe(i) == \E j \in 1..(i - 1) : Expr.ops[j].op = "unsafe"

Operand(i) == eval_expr_kind(Expr, i + 1, InUnsafe(i + 1), <<>>)

\* The keys pushed by the outermost operator of Expr.
PushedByOp == SubSeq(errors, Len(Operand(1).errors) + 1, Len(errors))

IndexDiagnostic == \E i \in 1..Len(PushedByOp) : PushedByOp[i] \in {"invalid_expr", "overflow_limits"}

\* C17: indexing a pointer, array, slice or string, or slicing an array, slice
\* or string, with an index or bound that is not of integer kind (the string
\* literal) pushes a diagnostic about it, and so does indexing with the
\* negative constant n.
C17_IndexDiagnostics ==
    pcEval \in {"done", "panic"} /\ Expr.ops # <<>> =>
        LET o == Expr.ops[1]
            k == Operand(1).d.Kind
        IN  ~Operand(1).nil /\ ~Operand(1).panic =>
                /\ o.op = "indexing" /\ (Ptr(k) \/ Arr(k) \/ Slc(k) \/ k = "str")
                       /\ o.arg \in {"s", "n"} => IndexDiagnostic
                /\ o.op = "slicing" /\ (Arr(k) \/ Slc(k) \/ k = "str")
                       /\ o.arg = "s" => IndexDiagnostic

\* Expressions of unary `*` and `&` and unsafe, nested up to MaxNesting deep,
\* over a pointer, an integer or a slice.
MaxNesting == 3

UnsafeInit ==
    /\ Expr \in [leaf : [lit : {FALSE}, v : {"p", "v", "sl"}],
                 ops : SeqsUpTo([op : {"unary"}, arg : {"*", "&"}]
                                    \cup [op : {"unsafe"}, arg : {""}], MaxNesting)]
    /\ data = NilData
    /\ errors = <<>>
    /\ unsafety = FALSE
    /\ pcEval = "eval"
    /\ IdleBut({"eval"})

SpecUnsafe == UnsafeInit /\ [][Eval]_vars

\* The unary `*` of Expr that are evaluated (their operand yields a Data)
\* outside of every unsafe expression.
StarsOutOfUnsafe ==
    {i \in 1..Len(Expr.ops) :
        /\ Expr.ops[i] = [op |-> "unary", arg |-> "*"]
        /\ ~InUnsafe(i)
        /\ ~Operand(i).nil}

\* C18: unsafe_behavior_at_out_of_unsafe_scope is pushed once for every unary
\* `*` evaluated outside of an unsafe expression and never for one inside, also
\* when an unsafe expression has been evaluated before the `*` or around it;
\* and the evaluation leaves e.unsafety as it found it.
C18_UnsafeScope ==
    pcEval = "done" =>
        /\ Count(errors, "unsafe_behavior_at_out_of_unsafe_scope")
               = Cardinality(StarsOutOfUnsafe)
        /\ unsafety = FALSE

\* `*unsafe(*p)`: the inner `*` is in the unsafe scope, the outer one is
\* evaluated after eval_unsafe returned.
C18_Witness ==
    /\ pcEval = "done"
    /\ Expr.leaf.v = "p"
    /\ Expr.ops = <<[op |-> "unary", arg |-> "*"], [op |-> "unsafe", arg |-> ""],
                    [op |-> "unary", arg |-> "*"]>>
    /\ ~data.nil
    /\ errors = <<"unsafe_behavior_at_out_of_unsafe_scope">>

\* ========================================================================
\* OPERATORS (src/parser/parser.go, evalProcesses and nextOperator)
\* ========================================================================
\* A process is a sequence of tokens [Id, Kind, Pos]: Pos is the position of
\* the process in the expression as it was written, and <<Pos>> the token in a
\* diagnostic. An operand is the integer variable a or the literal true; `-a`
\* is one process of two tokens.
MaxProcesses == 5
MaxOperators == 3

Tok(id, kind, pos) == [Id |-> id, Kind |-> kind, Pos |-> pos]

Process(kind, pos) ==
    IF kind = "a" THEN <<Tok("Id", "a", pos)>>
    ELSE IF kind = "true" THEN <<Tok("Value", "true", pos)>>
    ELSE IF kind = "-a" THEN <<Tok("Operator", "-", pos), Tok("Id", "a", pos)>>
    ELSE <<Tok("Operator", kind, pos)>>

\* The precedence level nextOperator gives to an operator, 0 to one it
\* does not know.
Precedence(kind) ==
    IF kind \in {"*", "/", "%", "<<", ">>", "&"} THEN 5
    ELSE IF kind \in {"+", "-", "|", "^"} THEN 4
    ELSE IF kind \in {"==", "!=", "<", "<=", ">", ">="} THEN 3
    ELSE IF kind = "&&" THEN 2
    ELSE IF kind = "||" THEN 1
    ELSE 0

IsOperator(part) == Len(part) = 1 /\ part[1].Id = "Operator"

\* nextOperator: [p, index]. The loop keeps for each level the index of the
\* operator it met last; the index is 0-based, -1 for none.
nextOperator(p, parts) ==
    LET RECURSIVE loop(_, _, _)
        loop(q, prec, i) ==
            IF i > Len(parts) THEN [p |-> q, prec |-> prec]
            ELSE IF ~IsOperator(parts[i]) THEN loop(q, prec, i + 1)
            ELSE IF Precedence(parts[i][1].Kind) = 0
            THEN loop(pusherrtok(q, <<parts[i][1].Pos>>, "invalid_operator"), prec, i + 1)
            ELSE loop(q, [prec EXCEPT ![Precedence(parts[i][1].Kind)] = i - 1], i + 1)
        r == loop(p, [l \in 1..5 |-> -1], 1)
    IN  [p |-> r.p,
         index |-> IF r.prec[5] # -1 THEN r.prec[5]
                   ELSE IF r.prec[4] # -1 THEN r.prec[4]
                   ELSE IF r.prec[3] # -1 THEN r.prec[3]
                   ELSE IF r.prec[2] # -1 THEN r.prec[2]
                   ELSE r.prec[1]]

NextOperatorInit ==
    /\ \E kinds \in SeqsUpTo({"a", "-a", "*", "+", "==", "&&", "||", "!"}, MaxProcesses) :
           processes = [i \in 1..Len(kinds) |-> Process(kinds[i], i)]
    /\ operator = -2
    /\ result = [Code |-> "Void", Value |-> <<>>, Token |-> <<>>]
    /\ solved = <<>>
    /\ Logs = <<>>
    /\ spawned = <<>>
    /\ pcFunc = "idle"
    /\ IdleBut({"proc", "sink"})

NextOperator ==
    /\ operator = -2
    /\ LET r == nextOperator([Logs |-> Logs], processes)
       IN  /\ operator' = r.index
           /\ Logs' = r.p.Logs
    /\ UNCHANGED <<processes, result, solved, spawned, pcFunc>>
    /\ Keep({"proc", "sink"})

SpecNextOperator == NextOperatorInit /\ [][NextOperator]_vars

\* The 0-based indices of the operators of the highest level among processes.
Highest ==
    LET ops == {i \in 1..Len(processes) :
                   IsOperator(processes[i]) /\ Precedence(processes[i][1].Kind) > 0}
    IN  {i - 1 : i \in {i \in ops : \A k \in ops :
                         Precedence(processes[k][1].Kind) <= Precedence(processes[i][1].Kind)}}

\* C19: nextOperator returns -1 when no operator remains, else the index of
\* the leftmost operator of the highest precedence level that remains.
C19_NextOperatorLeftmost ==
    operator # -2 =>
        IF Highest = {} THEN operator = -1
        ELSE operator \in Highest /\ \A i \in Highest : operator <= i

\* The zero ast.Value: what a solver returns when it gives no type. The zero
\* Code is taken to be x.Void.
ZeroValue == [Code |-> "Void", Value |-> <<>>, Token |-> <<>>]

\* evalExprPart on a process of one token: [p, v, panic]. An operator alone is
\* no value for evalSingleExpr and goes to evalOperatorExprPart, where a
\* unary operator evaluates the tokens after it, none: tokens[0] is out of
\* range.
evalExprPart(p, part) ==
    IF part[1].Id # "Operator"
    THEN [p |-> p, panic |-> FALSE,
          v |-> [Code |-> IF part[1].Kind = "true" THEN "Bool" ELSE "I32",
                 Value |-> IF part[1].Kind = "true" THEN <<"bool">> ELSE <<"i32">>,
                 Token |-> <<part[1].Pos>>]]
    ELSE LET p1 == pusherrtok(p, <<part[1].Pos>>, "invalid_syntax")
         IN  IF part[1].Kind \in {"-", "+", "~", "!", "*", "&"}
             THEN [p |-> p1, panic |-> TRUE, v |-> ZeroValue]
             ELSE [p |-> pusherrtok(p1, <<part[1].Pos>>, "invalid_syntax"), panic |-> FALSE,
                   v |-> [ZeroValue EXCEPT !.Token = <<part[1].Pos>>]]

\* The categories of x on the codes of the model.
IsFloatType(code) == code \in {"F32", "F64"}

IsSignedNumericType(code) == code \in {"I32", "I64"}

IsUnsignedNumericType(code) == code \in {"U32"}

IsIntegerType(code) == IsSignedNumericType(code) \/ IsUnsignedNumericType(code)

TypeGreaterThan(c1, c2) == c1 = "I64" /\ c2 = "I32"

\* What the handlers return: the zero value, the zero value with only the
\* Code set, or with the type of an operand.
Coded(code) == [ZeroValue EXCEPT !.Code = code]

Typed(val) == [ZeroValue EXCEPT !.Code = val.Code, !.Value = val.Value]

\* A handler ends with a value or with a diagnostic at the operator and the
\* zero value.
Yield(p, v) == [p |-> p, v |-> v]

Refuse(p, op, key) == [p |-> pusherrtok(p, <<op.Pos>>, key), v |-> ZeroValue]

\* The handlers of the solver: [p, v]. The operands are variables and
\* results: none is a constant number.
solverArray(p, op, leftVal, rightVal) ==
    IF ~typesAreCompatible(leftVal, rightVal, TRUE) THEN Refuse(p, op, "incompatible_type")
    ELSE IF op.Kind \in {"!=", "=="} THEN Yield(p, Coded("Bool"))
    ELSE Refuse(p, op, "operator_notfor_array")

ptr(p, op, leftVal, rightVal) ==
    LET ok == IF leftVal.Value = rightVal.Value THEN TRUE
              ELSE IF typeIsSingle(leftVal)
              THEN leftVal.Code = "Nil" \/ IsIntegerType(leftVal.Code)
              ELSE IF typeIsSingle(rightVal)
              THEN rightVal.Code = "Nil" \/ IsIntegerType(rightVal.Code)
              ELSE FALSE
    IN  IF ~ok THEN Refuse(p, op, "incompatible_type")
        ELSE IF op.Kind \in {"+", "-"}
        THEN IF typeIsPtr(leftVal) /\ typeIsPtr(rightVal)
             THEN Refuse(p, op, "incompatible_type")
             ELSE Yield(p, Typed(IF typeIsPtr(leftVal) THEN leftVal ELSE rightVal))
        ELSE IF op.Kind \in {"!=", "=="} THEN Yield(p, Coded("Bool"))
        ELSE Refuse(p, op, "operator_notfor_pointer")

solverNil(p, op, leftVal, rightVal) ==
    IF ~typesAreCompatible(leftVal, rightVal, FALSE) THEN Refuse(p, op, "incompatible_type")
    ELSE IF op.Kind \in {"!=", "=="} THEN Yield(p, Coded("Bool"))
    ELSE Refuse(p, op, "operator_notfor_nil")

rune(p, op, leftVal, rightVal) ==
    IF ~typesAreCompatible(leftVal, rightVal, TRUE) THEN Refuse(p, op, "incompatible_type")
    ELSE IF op.Kind \in {"!=", "==", ">", "<", ">=", "<="} THEN Yield(p, Coded("Bool"))
    ELSE IF op.Kind \in {"+", "-", "*", "/", "^", "&", "%", "|"} THEN Yield(p, Coded("Rune"))
    ELSE Refuse(p, op, "operator_notfor_rune")

any(p, op, leftVal, rightVal) ==
    IF op.Kind \in {"!=", "=="} THEN Yield(p, Coded("Bool"))
    ELSE Refuse(p, op, "operator_notfor_any")

solverBool(p, op, leftVal, rightVal) ==
    IF ~typesAreCompatible(leftVal, rightVal, TRUE) THEN Refuse(p, op, "incompatible_type")
    ELSE IF op.Kind \in {"!=", "=="} THEN Yield(p, Coded("Bool"))
    ELSE Refuse(p, op, "operator_notfor_bool")

str(p, op, leftVal, rightVal) ==
    IF leftVal.Code # rightVal.Code THEN Refuse(p, op, "incompatible_datatype")
    ELSE IF op.Kind = "+" THEN Yield(p, Coded("Str"))
    ELSE IF op.Kind \in {"==", "!="} THEN Yield(p, Coded("Bool"))
    ELSE Refuse(p, op, "operator_notfor_string")

float(p, op, leftVal, rightVal) ==
    IF ~typesAreCompatible(leftVal, rightVal, TRUE) THEN Refuse(p, op, "incompatible_type")
    ELSE IF op.Kind \in {"!=", "==", "<", ">", ">=", "<="} THEN Yield(p, Coded("Bool"))
    ELSE IF op.Kind \in {"+", "-", "*", "/"}
    THEN Yield(p, Coded(IF "F64" \in {leftVal.Code, rightVal.Code} THEN "F64" ELSE "F32"))
    ELSE Refuse(p, op, "operator_notfor_float")

\* The greater of the two operand types.
Greater(leftVal, rightVal) ==
    IF TypeGreaterThan(rightVal.Code, leftVal.Code) THEN Typed(rightVal) ELSE Typed(leftVal)

\* A shift by an operand that is no unsigned integer and no constant is
\* refused at the operand, and still has the type of the left operand.
signed(p, op, leftVal, rightVal) ==
    IF ~typesAreCompatible(leftVal, rightVal, TRUE) THEN Refuse(p, op, "incompatible_type")
    ELSE IF op.Kind \in {"!=", "==", "<", ">", ">=", "<="} THEN Yield(p, Coded("Bool"))
    ELSE IF op.Kind \in {"+", "-", "*", "/", "%", "&", "|", "^"}
    THEN Yield(p, Greater(leftVal, rightVal))
    ELSE IF op.Kind \in {">>", "<<"}
    THEN Yield(IF ~IsUnsignedNumericType(rightVal.Code)
               THEN pusherrtok(p, rightVal.Token, "bitshift_must_unsigned") ELSE p,
               Typed(leftVal))
    ELSE Refuse(p, op, "operator_notfor_int")

unsigned(p, op, leftVal, rightVal) ==
    IF ~typesAreCompatible(leftVal, rightVal, TRUE) THEN Refuse(p, op, "incompatible_type")
    ELSE IF op.Kind \in {"!=", "==", "<", ">", ">=", "<="} THEN Yield(p, Coded("Bool"))
    ELSE IF op.Kind \in {"+", "-", "*", "/", "%", "&", "|", "^"}
    THEN Yield(p, Greater(leftVal, rightVal))
    ELSE Refuse(p, op, "operator_notfor_uint")

logical(p, op, leftVal, rightVal) ==
    LET p1 == IF leftVal.Code # "Bool"
              THEN pusherrtok(p, leftVal.Token, "logical_not_bool") ELSE p
        p2 == IF rightVal.Code # "Bool"
              THEN pusherrtok(p1, rightVal.Token, "logical_not_bool") ELSE p1
    IN  Yield(p2, Coded("Bool"))

\* A dispatch that looks for a pointer before it looks for an array.
HandlerPtrFirst(op, leftVal, rightVal) ==
    IF op.Kind \in {"&&", "||"} THEN "logical"
    ELSE IF typeIsPtr(leftVal) \/ typeIsPtr(rightVal) THEN "ptr"
    ELSE IF typeIsArray(leftVal) \/ typeIsArray(rightVal) THEN "array"
    ELSE "nil"

\* The handler Solve goes to, "" when it goes to none.
Handler(op, leftVal, rightVal) ==
    LET code(c) == leftVal.Code = c \/ rightVal.Code = c
    IN  IF op.Kind \in {"&&", "||"} THEN "logical"
        ELSE IF typeIsArray(leftVal) \/ typeIsArray(rightVal) THEN "array"
        ELSE IF typeIsPtr(leftVal) \/ typeIsPtr(rightVal) THEN "ptr"
        ELSE IF code("Nil") THEN "nil"
        ELSE IF code("Rune") THEN "rune"
        ELSE IF code("Any") THEN "any"
        ELSE IF code("Bool") THEN "bool"
        ELSE IF code("Str") THEN "str"
        ELSE IF IsFloatType(leftVal.Code) \/ IsFloatType(rightVal.Code) THEN "float"
        ELSE IF IsSignedNumericType(leftVal.Code) \/ IsSignedNumericType(rightVal.Code)
        THEN "signed"
        ELSE IF IsUnsignedNumericType(leftVal.Code) \/ IsUnsignedNumericType(rightVal.Code)
        THEN "unsigned"
        ELSE ""

\* solver.Solve: [p, v, handler], and the call is written down in p.solved.
Solve(p, op, leftVal, rightVal) ==
    LET q == [p EXCEPT !.solved = Append(@, [Kind |-> op.Kind, Pos |-> op.Pos,
                                             left |-> leftVal.Code,
                                             right |-> rightVal.Code])]
        q1 == IF Precedence(op.Kind) = 0
              THEN pusherrtok(q, <<op.Pos>>, "invalid_operator") ELSE q
        h == Handler(op, leftVal, rightVal)
        r == IF h = "logical" THEN logical(q, op, leftVal, rightVal)
             ELSE IF h = "array" THEN solverArray(q1, op, leftVal, rightVal)
             ELSE IF h = "ptr" THEN ptr(q1, op, leftVal, rightVal)
             ELSE IF h = "nil" THEN solverNil(q1, op, leftVal, rightVal)
             ELSE IF h = "rune" THEN rune(q1, op, leftVal, rightVal)
             ELSE IF h = "any" THEN any(q1, op, leftVal, rightVal)
             ELSE IF h = "bool" THEN solverBool(q1, op, leftVal, rightVal)
             ELSE IF h = "str" THEN str(q1, op, leftVal, rightVal)
             ELSE IF h = "float" THEN float(q1, op, leftVal, rightVal)
             ELSE IF h = "signed" THEN signed(q1, op, leftVal, rightVal)
             ELSE IF h = "unsigned" THEN unsigned(q1, op, leftVal, rightVal)
             ELSE Yield(q1, ZeroValue)
    IN  [p |-> r.p, v |-> r.v, handler |-> h]

\* The loop of evalProcesses from its `for j != -1`: [p, v, panic], p holds
\* Logs and solved. ps is the slice processes, v is v.ast, boolean the flag of
\* the loop; an index out of the slice is a panic.
RECURSIVE evalLoop(_, _, _, _, _)
evalLoop(p, ps, j, v0, boolean0) ==
    IF j = -1 THEN [p |-> p, v |-> v0, panic |-> FALSE]
    ELSE LET boolean == boolean0 \/ v0.Code = "Bool"
             v == IF boolean THEN [v0 EXCEPT !.Code = "Bool"] ELSE v0
             op == ps[j + 1][1]
             panic(q) == [p |-> q, v |-> v, panic |-> TRUE]
             next(r, rest) ==
                 LET n == nextOperator(r.p, rest)
                 IN  evalLoop(n.p, rest, n.index, r.v, boolean)
         IN  IF j = 0
             THEN IF Len(ps) < 2 THEN panic(p)
                  ELSE LET right == evalExprPart(p, ps[2])
                       IN  IF right.panic THEN panic(right.p)
                           ELSE next(Solve(right.p, op, v, right.v), Drop(ps, 2))
             ELSE IF j = Len(ps) - 1
             THEN LET left == evalExprPart(p, ps[j])
                  IN  IF left.panic THEN panic(left.p)
                      ELSE next(Solve(left.p, op, left.v, v), SubSeq(ps, 1, j - 1))
             ELSE IF IsOperator(ps[j])
             THEN LET right == evalExprPart(p, ps[j + 2])
                  IN  IF right.panic THEN panic(right.p)
                      ELSE next(Solve(right.p, op, v, right.v),
                                SubSeq(ps, 1, j) \o Drop(ps, j + 2))
             ELSE LET left == evalExprPart(p, ps[j])
                      right == evalExprPart(left.p, ps[j + 2])
                      s == Solve(right.p, op, left.v, right.v)
                      r == IF v.Code # "Void"
                           THEN Solve(s.p, [op EXCEPT !.Kind = "+"], v, s.v)
                           ELSE s
                      rest == SubSeq(ps, 1, j - 1) \o Drop(ps, j + 2)
                  IN  IF left.panic THEN panic(left.p)
                      ELSE IF right.panic THEN panic(right.p)
                      ELSE IF Len(rest) = 1 THEN [p |-> r.p, v |-> r.v, panic |-> FALSE]
                      ELSE next(r, rest)

\* evalProcesses: [p, v, panic].
evalProcesses(p, ps) ==
    IF ps = <<>> THEN [p |-> p, v |-> ZeroValue, panic |-> FALSE]
    ELSE IF Len(ps) = 1
    THEN LET only == evalExprPart(p, ps[1])
         IN  [p |-> only.p, v |-> only.v, panic |-> only.panic]
    ELSE LET n == nextOperator(p, ps)
         IN  evalLoop(n.p, ps, n.index, ZeroValue, FALSE)

\* An expression of up to MaxOperators binary operators between operands.
ProcessesInit ==
    /\ \E n \in 0..MaxOperators :
           \E operands \in [1..(n + 1) -> {"a", "true"}],
              operators \in [1..n -> {"*", "+", "==", "&&", "||"}] :
               processes = [i \in 1..(2 * n + 1) |->
                               IF i % 2 = 1 THEN Process(operands[(i + 1) \div 2], i)
                               ELSE Process(operators[i \div 2], i)]
    /\ operator = -2
    /\ result = ZeroValue
    /\ solved = <<>>
    /\ Logs = <<>>
    /\ spawned = <<>>
    /\ pcFunc = "eval"
    /\ IdleBut({"proc", "sink"})

EvalProcesses ==
    /\ pcFunc = "eval"
    /\ LET r == evalProcesses([Logs |-> Logs, solved |-> solved], processes)
       IN  /\ result' = r.v
           /\ solved' = r.p.solved
           /\ Logs' = r.p.Logs
           /\ pcFunc' = IF r.panic THEN "panic" ELSE "returned"
    /\ UNCHANGED <<processes, operator, spawned>>
    /\ Keep({"proc", "sink"})

SpecProcesses == ProcessesInit /\ [][EvalProcesses]_vars

\* The expression is `a == a && a == a`.
AllEqual ==
    /\ Len(processes) = 7
    /\ \A i \in {1, 3, 5, 7} : processes[i][1].Kind = "a"
    /\ processes[2][1].Kind = "==" /\ processes[6][1].Kind = "=="
    /\ processes[4][1].Kind = "&&"

\* C20: evalProcesses solves every binary operator of the expression once,
\* with its own lexeme; for `a == a && a == a` the `&&` is solved on two Bool
\* values, the result is Bool and nothing is pushed.
C20_EveryOperatorOnce ==
    pcFunc \in {"returned", "panic"} =>
        /\ pcFunc = "returned"
        /\ Len(solved) = Len(processes) \div 2
        /\ \A i \in 1..Len(processes) :
               i % 2 = 0 =>
                   Cardinality({k \in 1..Len(solved) :
                                   solved[k].Pos = i /\ solved[k].Kind = processes[i][1].Kind}) = 1
        /\ AllEqual =>
               /\ \E k \in 1..Len(solved) :
                      solved[k] = [Kind |-> "&&", Pos |-> 4, left |-> "Bool", right |-> "Bool"]
               /\ result.Code = "Bool"
               /\ Logs = <<>>

\* ------------------------------------------------------------------------
\* ONE OPERATOR AND ITS OPERANDS
\* ------------------------------------------------------------------------
\* The operand at pos whose type has the code and the lexemes given.
Operand2(code, lexemes, pos) == [Code |-> code, Value |-> lexemes, Token |-> <<pos>>]

OperandTypes ==
    { <<"I32", <<"i32">>>>, <<"I64", <<"i64">>>>, <<"U32", <<"u32">>>>,
      <<"F64", <<"f64">>>>, <<"Bool", <<"bool">>>>, <<"Str", <<"str">>>>,
      <<"Rune", <<"rune">>>>, <<"Any", <<"any">>>>, <<"Nil", <<"nil">>>>,
      <<"I32", <<"*", "i32">>>>, <<"U8", <<"*", "u8">>>>,
      <<"I32", <<"[]", "i32">>>>, <<"Str", <<"[]", "str">>>> }

OperatorKinds == {"+", "-", "*", "%", "==", "!=", "<", "&&", "||"}

SolveInit ==
    /\ IdleBut({"solve"})
    /\ \E kind \in OperatorKinds, l \in OperandTypes, r \in OperandTypes :
          solver = [operator |-> [Kind |-> kind, Pos |-> 2],
                    leftVal |-> Operand2(l[1], l[2], 1),
                    rightVal |-> Operand2(r[1], r[2], 3)]
    /\ solution = [v |-> ZeroValue, handler |-> "", Logs |-> <<>>, done |-> FALSE]

\* solver.Solve on the solver.
SolveOnce ==
    /\ ~solution.done
    /\ LET r == Solve([Logs |-> <<>>, solved |-> <<>>], solver.operator,
                      solver.leftVal, solver.rightVal)
       IN  solution' = [v |-> r.v, handler |-> r.handler, Logs |-> r.p.Logs,
                        done |-> TRUE]
    /\ UNCHANGED solver
    /\ Keep({"solve"})

SpecSolve == SolveInit /\ [][SolveOnce]_vars

\* The categories in the order of the dispatch, and the operands of each.
Categories ==
    <<"array", "ptr", "nil", "rune", "any", "bool", "str", "float", "signed",
      "unsigned">>

BelongsTo(category, operand) ==
    CASE category = "array" -> operand.Value[1] = "[]"
      [] category = "ptr" -> operand.Value[1] = "*"
      [] category = "nil" -> operand.Code = "Nil"
      [] category = "rune" -> operand.Code = "Rune"
      [] category = "any" -> operand.Code = "Any"
      [] category = "bool" -> operand.Code = "Bool"
      [] category = "str" -> operand.Code = "Str"
      [] category = "float" -> operand.Code \in {"F32", "F64"}
      [] category = "signed" -> operand.Code \in {"I8", "I16", "I32", "I64"}
      [] category = "unsigned" -> operand.Code \in {"U8", "U16", "U32", "U64"}

Matches(i) ==
    BelongsTo(Categories[i], solver.leftVal) \/ BelongsTo(Categories[i], solver.rightVal)

\* C21: an arithmetic, bitwise or comparison operator goes to the handler of
\* the first category, in the order array, pointer, nil, rune, any, bool,
\* string, float, signed, unsigned, that either operand belongs to; && and ||
\* go to the logical handler whatever the operands are.
C21_DispatchOrder ==
    solution.done =>
        IF solver.operator.Kind \in {"&&", "||"} THEN solution.handler = "logical"
        ELSE \E i \in 1..Len(Categories) :
                /\ Matches(i)
                /\ \A j \in 1..(i - 1) : ~Matches(j)
                /\ solution.handler = Categories[i]

\* An array and a pointer met at `==`: the array handler took them.
C21_Witness ==
    /\ solution.done
    /\ solver.operator.Kind = "=="
    /\ solver.leftVal.Value = <<"*", "i32">>
    /\ solver.rightVal.Value = <<"[]", "i32">>
    /\ solution.handler = "array"

IsPtrOperand(operand) == operand.Value # <<>> /\ operand.Value[1] = "*"

IsIntOperand(operand) ==
    /\ Len(operand.Value) = 1
    /\ operand.Code \in {"I32", "I64", "U32"}

\* The operand pairs and operators the pointer handler is to accept.
PtrArithmetic ==
    /\ solver.operator.Kind \in {"+", "-"}
    /\ \/ IsPtrOperand(solver.leftVal) /\ IsIntOperand(solver.rightVal)
       \/ IsIntOperand(solver.leftVal) /\ IsPtrOperand(solver.rightVal)

PtrComparison ==
    /\ solver.operator.Kind \in {"==", "!="}
    /\ \/ IsPtrOperand(solver.leftVal) /\ IsPtrOperand(solver.rightVal)
       \/ IsPtrOperand(solver.leftVal) /\ solver.rightVal.Code = "Nil"
       \/ solver.leftVal.Code = "Nil" /\ IsPtrOperand(solver.rightVal)

\* C22: in the pointer handler + and - of a pointer and an integer have the
\* type of the pointer, and whatever is neither that nor == or != of two
\* pointers or of a pointer and nil has a diagnostic and no type.
C22_PointerOperators ==
    (solution.done /\ solution.handler = "ptr") =>
        /\ PtrArithmetic =>
              /\ solution.Logs = <<>>
              /\ IsPtrOperand(solution.v)
        /\ (~PtrArithmetic /\ ~PtrComparison) =>
              /\ solution.Logs # <<>>
              /\ solution.v = ZeroValue

\* ------------------------------------------------------------------------
\* MULTI-TYPED AGAINST MULTI-TYPED
\* ------------------------------------------------------------------------
MaxMulti == 2

BoolType == [Code |-> "Bool", MultiTyped |-> FALSE, Tag |-> <<>>, Value |-> <<"bool">>]

\* The multi-typed type of the types given.
MultiTypeOf(types) ==
    [Code |-> "Void", MultiTyped |-> TRUE, Tag |-> types, Value |-> <<>>]

MultiTypes ==
    {MultiTypeOf(types) :
        types \in SeqsUpTo({I32Type, StrType, BoolType}, MaxMulti) \ {<<>>}}

\* The target is multi-typed, the source is multi-typed or i32.
MultiInit ==
    /\ IdleBut({"multi"})
    /\ \E real \in MultiTypes, check \in MultiTypes \cup {MultiTypeOf(<<>>), I32Type} :
          checking = [real |-> real, check |-> check, events |-> <<>>, done |-> FALSE]

\* checkMultiTypeAsync(real, check, true, errToken) with the token <<0>>.
CheckMultiType ==
    /\ ~checking.done
    /\ checking' = [checking EXCEPT
                       !.events = checkMultiTypeAsyncBody(Local, checking.real,
                                                          checking.check, TRUE, <<0>>),
                       !.done = TRUE]
    /\ Keep({"multi"})

SpecMulti == MultiInit /\ [][CheckMultiType]_vars

\* The check has pushed incompatible_datatype.
Incompatible ==
    \E i \in 1..Len(checking.events) :
        /\ checking.events[i].ev = "push"
        /\ checking.events[i].entry.key = "incompatible_datatype"

\* C23: when the target and the source are both multi-typed and their lists
\* differ in length, or the i-th target type and the i-th source type are
\* incompatible for some i, the check pushes incompatible_datatype.
C23_MultiTypePairs ==
    (checking.done /\ checking.real.MultiTyped /\ checking.check.MultiTyped) =>
        LET realTypes == checking.real.Tag
            checkTypes == checking.check.Tag
        IN  (\/ Len(realTypes) # Len(checkTypes)
             \/ \E i \in 1..Len(realTypes) :
                   ~typesAreCompatible(realTypes[i], checkTypes[i], TRUE))
            => Incompatible

\* ------------------------------------------------------------------------
\* ALIASES OF ALIASES
\* ------------------------------------------------------------------------
\* The table holds up to MaxAliases aliases `type A <target>`, the target
\* i32, an alias of the table (A itself too) or the unknown name X. A call of
\* readyType is a frame on the stack of its goroutine: resolved holds the
\* argument dt of every frame, and the stack has room for StackLimit frames.
MaxAliases == 3

StackLimit == MaxAliases + 2

AliasIds == <<"A", "B", "C", "D">>

AliasTables ==
    UNION { { [i \in 1..n |-> [Id |-> AliasIds[i], Type |-> target[i]]] :
                target \in [1..n -> {I32Type, NameType("X")}
                                      \cup {NameType(AliasIds[j]) : j \in 1..n}] } :
            n \in 1..MaxAliases }

AliasInit ==
    /\ Types \in AliasTables
    /\ \E prefix \in {<<>>, <<"*">>} : dtype = PrefixedName(prefix, "A")
    /\ resolved = <<dtype>>
    /\ arrays = <<>>
    /\ Funcs = <<>>
    /\ GlobalVars = <<>>
    /\ waitingGlobalVars = <<>>
    /\ BlockVars = <<>>
    /\ Logs = <<>>
    /\ spawned = <<>>
    /\ pcFunc = "call"
    /\ IdleBut({"type", "tables", "sink"})

\* One frame of readyType(dt, true) on a type that is no function: it
\* returns, or it calls readyType on the type of the alias, which has the
\* lexeme of dt before the name spliced in front of its own. A call the stack
\* has no room for ends the program.
ReadyTypeFrame ==
    /\ pcFunc = "call"
    /\ LET dt == resolved[Len(resolved)]
           found == typeById(Parser, dt.Id)
       IN  IF dt.Value = <<>> \/ dt.Code # "Name"
           THEN pcFunc' = "returned" /\ UNCHANGED <<Logs, resolved>>
           ELSE IF found = <<>>
           THEN /\ Logs' = pusherrtok(Parser, <<-1>>, "invalid_type_source").Logs
                /\ pcFunc' = "returned"
                /\ UNCHANGED resolved
           ELSE IF Len(resolved) = StackLimit
           THEN pcFunc' = "overflow" /\ UNCHANGED <<Logs, resolved>>
           ELSE /\ resolved' =
                       Append(resolved,
                              [Head(found).Type EXCEPT
                                  !.Value = SubSeq(dt.Value, 1, Len(dt.Value) - 1) \o @])
                /\ UNCHANGED <<Logs, pcFunc>>
    /\ UNCHANGED <<dtype, arrays, spawned, tableVars>>
    /\ Keep({"type", "tables", "sink"})

SpecAlias == AliasInit /\ [][ReadyTypeFrame]_vars

\* The aliases of the table reached from `A` by following targets, A first.
RECURSIVE Chain(_, _)
Chain(id, n) ==
    LET found == Find(Types, id)
    IN  IF n = 0 \/ found = <<>> THEN <<>>
        ELSE <<id>> \o (IF Head(found).Type.Code = "Name"
                        THEN Chain(Head(found).Type.Id, n - 1) ELSE <<>>)

\* Following the targets from A comes back to an alias it has been at.
Cyclic == Len(Chain("A", MaxAliases + 1)) > MaxAliases

\* C24: readyType returns for every alias table, the tables in which aliases
\* name each other in a cycle too, and has then pushed one diagnostic for the
\* cycle.
C24_ReadyTypeTerminates ==
    /\ pcFunc # "overflow"
    /\ (pcFunc = "returned" /\ Cyclic) => Len(Logs) = 1

\* ------------------------------------------------------------------------
\* SLICES OF ARRAYS, SLICES AND STRINGS
\* ------------------------------------------------------------------------
\* The kind of the slices of the elements of the array kind k.
SliceOf(k) == IF k = "[3]int" THEN "[]int" ELSE k

\* C25: slicing an array ends without a failure in a Data of the kind slice
\* of the array's elements that is no lvalue; slicing a slice or a string
\* keeps the kind and ends in a Data that is no lvalue.
C25_Slicing ==
    (/\ pcEval \in {"done", "panic"}
     /\ Expr.ops # <<>>
     /\ Expr.ops[1].op = "slicing"
     /\ ~Operand(1).nil
     /\ ~Operand(1).panic) =>
        LET k == Operand(1).d.Kind
        IN  /\ Arr(k) =>
                  /\ pcEval = "done"
                  /\ ~data.nil
                  /\ data.d.Kind = SliceOf(k)
                  /\ ~data.d.Lvalue
            /\ (Slc(k) \/ k = "str") =>
                  /\ pcEval = "done"
                  /\ ~data.nil
                  /\ data.d.Kind = k
                  /\ ~data.d.Lvalue

\* ------------------------------------------------------------------------
\* VARIABLES OF A BLOCK
\* ------------------------------------------------------------------------
\* The block checked holds up to MaxScope statements: `x := 1`, `y := 1` and
\* an if, else-if, else, while or foreach whose block is empty or declares x.
MaxScope == 2

VarStatement(id) ==
    [kind |-> "Var", profile |-> "None", term |-> FALSE, expr |-> <<>>, block |-> <<>>,
     var |-> NumVar(id)]

BlockStatement(kind, profile, b) ==
    [kind |-> kind, profile |-> profile, term |-> FALSE, expr |-> <<>>, block |-> b]

ScopeStatements ==
    {VarStatement("x"), VarStatement("y")}
    \cup {BlockStatement(l[1], l[2], b) :
            l \in {<<"If", "None">>, <<"ElseIf", "None">>, <<"Else", "None">>,
                   <<"Iter", "While">>, <<"Iter", "Foreach">>},
            b \in {<<>>, <<VarStatement("x")>>}}

ScopeInit ==
    /\ fun \in [RetType : {VoidType}, Block : SeqsUpTo(ScopeStatements, MaxScope)]
    /\ FuncStart
    /\ Types = <<>>
    /\ Funcs = <<>>
    /\ GlobalVars = <<>>
    /\ waitingGlobalVars = <<>>
    /\ BlockVars = <<>>
    /\ IdleBut({"fun", "sink", "tables"})

\* checkBlock on the block of fun, which has no parameters.
CheckBlock ==
    /\ pcFunc = "check"
    /\ LET st == checkBlock(fun.Block, <<>>,
                            Parser @@ [iterCount |-> iterCount, panicked |-> FALSE])
       IN  /\ iterCount' = st.iterCount
           /\ Logs' = st.Logs
           /\ spawned' = st.spawned
           /\ BlockVars' = st.BlockVars
           /\ pcFunc' = "done"
    /\ UNCHANGED <<fun, Types, Funcs, GlobalVars, waitingGlobalVars>>
    /\ Keep({"fun", "sink", "tables"})

SpecScope == ScopeInit /\ [][CheckBlock]_vars

\* The identifiers the statements of the block itself declare, in order.
RECURSIVE Declared(_)
Declared(b) ==
    IF b = <<>> THEN <<>>
    ELSE (IF Head(b).kind = "Var" THEN <<Head(b).var.Id>> ELSE <<>>) \o Declared(Tail(b))

\* C26: when the check of the block is over, the block variables are those
\* its own statements declared, none of an if, else-if, else, while or
\* foreach block inside it, and exist_id has been pushed for a declaration
\* only when the block itself has declared the identifier before.
C26_BlockScope ==
    pcFunc = "done" =>
        /\ [i \in 1..Len(BlockVars) |-> BlockVars[i].Id] = Declared(fun.Block)
        /\ \A i \in 1..Len(fun.Block) :
              (\E n \in 1..Len(Logs) : Logs[n] = [tok |-> <<i>>, key |-> "exist_id"])
              => /\ fun.Block[i].kind = "Var"
                 /\ \E j \in 1..(i - 1) :
                       /\ fun.Block[j].kind = "Var"
                       /\ fun.Block[j].var.Id = fun.Block[i].var.Id

\* ------------------------------------------------------------------------
\* THE COUNTER OF THE WAIT GROUP
\* ------------------------------------------------------------------------
\* C27: throughout Parse the counter of the wait group is never negative, and
\* it is zero only when no task is running or waiting to run: every wg.Done
\* of a task has its own wg.Add before it.
C27_WaitGroupCounter ==
    /\ wg >= 0
    /\ pcFunc # "panic"
    /\ wg = 0 => tasks = EmptyBag

\* ------------------------------------------------------------------------
\* THE KINDS OF THE VARIABLES
\* ------------------------------------------------------------------------
\* A TypeKind is written as the lexemes of its type: <<"[]", "str">> is a
\* slice whose Elem is the TypeKind <<"str">>. The Data of a variable holds
\* the pointer v.Kind.Kind: [ident, depth] is the TypeKind reached from the
\* stored kind of ident through depth Elem pointers.
MaxSelections == 2

DeclaredKinds ==
    [v |-> <<"int">>, st |-> <<"str">>, sl |-> <<"[]", "u8">>, ss |-> <<"[]", "str">>,
     ar |-> <<"[3]", "int">>, as |-> <<"[3]", "str">>, ps |-> <<"*", "str">>]

\* The TypeKind r.ident, r.depth points to.
KindAt(syms, r) == Drop(syms[r.ident], r.depth)

\* eval_var: the Data has the pointer to the stored kind of the variable.
eval_var_kind(syms, ident) ==
    [syms |-> syms, ident |-> ident, depth |-> 0, panic |-> FALSE]

\* to_indexing with a constant integer index: d.Kind = Elem for a pointer, an
\* array and a slice, and d.Kind.kind = u8, a store through the pointer, for
\* a string.
to_indexing_kind(r) ==
    LET k == KindAt(r.syms, r)
    IN  IF Head(k) \in {"*", "[3]", "[]"} THEN [r EXCEPT !.depth = @ + 1]
        ELSE IF k = <<"str">>
        THEN [r EXCEPT !.syms[r.ident] = SubSeq(@, 1, r.depth) \o <<"u8">>]
        ELSE r

\* check_slicing without bounds: for an array d.Kind.Slc() is nil and its
\* Elem a nil dereference, before the store to d.Kind.kind.
check_slicing_kind(r) ==
    IF Head(KindAt(r.syms, r)) = "[3]" THEN [r EXCEPT !.panic = TRUE] ELSE r

\* eval_expr_kind on the operand chain ops[i..] over the variable.
RECURSIVE eval_kind(_, _, _)
eval_kind(syms, ex, i) ==
    IF i > Len(ex.ops) THEN eval_var_kind(syms, ex.leaf.v)
    ELSE LET r == eval_kind(syms, ex, i + 1)
         IN  IF r.panic THEN r
             ELSE IF ex.ops[i].op = "indexing" THEN to_indexing_kind(r)
             ELSE check_slicing_kind(r)

SymbolsInit ==
    /\ Expr \in [leaf : [lit : {FALSE}, v : DOMAIN DeclaredKinds],
                 ops : SeqsUpTo([op : {"indexing"}, arg : {"0"}]
                                \cup [op : {"slicing"}, arg : {""}], MaxSelections)]
    /\ symbols = DeclaredKinds
    /\ seen = <<>>
    /\ data = NilData
    /\ errors = <<>>
    /\ unsafety = FALSE
    /\ pcEval = "eval"
    /\ IdleBut({"eval", "sym"})

\* The evaluation of the bare identifier of Expr, of Expr, and of the bare
\* identifier again.
EvalKind ==
    /\ pcEval = "eval"
    /\ Len(seen) < 2
    /\ LET r == eval_kind(symbols, IF Len(seen) = 0 THEN [Expr EXCEPT !.ops = <<>>]
                                   ELSE Expr, 1)
           again == eval_kind(r.syms, [Expr EXCEPT !.ops = <<>>], 1)
       IN  IF Len(seen) = 0
           THEN /\ seen' = <<KindAt(r.syms, r)>>
                /\ UNCHANGED <<symbols, pcEval>>
           ELSE IF r.panic
           THEN /\ pcEval' = "panic"
                /\ UNCHANGED <<symbols, seen>>
           ELSE /\ symbols' = r.syms
                /\ seen' = Append(seen, KindAt(again.syms, again))
                /\ pcEval' = "done"
    /\ UNCHANGED <<Expr, data, errors, unsafety>>
    /\ Keep({"eval", "sym"})

SpecSymbols == SymbolsInit /\ [][EvalKind]_vars

\* C28: the evaluation of an expression leaves the stored kind of every
\* variable as it was declared, and the bare identifier has afterwards the
\* kind it had before.
C28_KindsUnchanged ==
    /\ symbols = DeclaredKinds
    /\ Len(seen) = 2 => seen[2] = seen[1]

\* ------------------------------------------------------------------------
\* SLICE LITERALS AND NAMESPACE SELECTIONS
\* ------------------------------------------------------------------------
\* A TypeKind is written as its lexemes, <<>> is nil: e.prefix is nil, int or
\* []int. An element of a slice literal is the number 0, the string "s" or
\* the identifier u, which is not defined. The file imports the package pkg,
\* which defines v.
MaxElems == 2

ElemExprs == {[lit |-> TRUE, v |-> "0"], [lit |-> TRUE, v |-> "s"], [lit |-> FALSE, v |-> "u"]}

\* Not in src/: check_assign_type pushes a diagnostic for a value whose kind
\* is not that of the destination.
check_assign_type(dest, d, errs) ==
    IF <<d.Kind>> # dest THEN Append(errs, "incompatible_types") ELSE errs

\* eval_exp_slc: [kind, nil, errors]; the elements are evaluated one by one.
RECURSIVE eval_elems(_, _, _)
eval_elems(elems, elem_type, errs) ==
    IF elems = <<>> THEN errs
    ELSE LET d == eval_leaf(Head(elems), errs)
         IN  eval_elems(Tail(elems), elem_type,
                        IF d.nil THEN d.errors
                        ELSE check_assign_type(elem_type, d.d, d.errors))

eval_exp_slc(elems, elem_type, errs) ==
    [nil |-> FALSE, kind |-> <<"[]">> \o elem_type,
     errors |-> eval_elems(elems, elem_type, errs)]

\* eval_slice_expr: [e, Elems, nil, kind, errors], e the evaluator and Elems
\* the elements of the literal as the call leaves them.
eval_slice_expr(e, s) ==
    LET leave(ev, elems, r) ==
            [e |-> ev, Elems |-> elems, nil |-> r.nil, kind |-> r.kind, errors |-> r.errors]
        none(errs) == [nil |-> TRUE, kind |-> <<>>, errors |-> errs]
        prefix == e.prefix
        cleared == [e EXCEPT !.prefix = <<>>]
        first_elem == eval_leaf(s.Elems[1], <<>>)
    IN  IF e.prefix # <<>> /\ Head(e.prefix) = "[]"
        THEN leave(e, s.Elems, eval_exp_slc(s.Elems, Tail(e.prefix), <<>>))
        ELSE IF Len(s.Elems) = 0
        THEN leave(cleared, s.Elems, none(<<"dynamic_type_annotation_failed">>))
        ELSE IF first_elem.nil
        THEN leave(cleared, s.Elems, none(first_elem.errors))
        ELSE leave([cleared EXCEPT !.prefix = prefix], Tail(s.Elems),
                   eval_exp_slc(Tail(s.Elems), <<first_elem.d.Kind>>, first_elem.errors))

\* eval_ns_selection: e.lookup is the package while the identifier is looked
\* up in it, and is put back.
eval_ns_selection(e, s) ==
    LET lookup == e.lookup
        inPkg == [e EXCEPT !.lookup = s.Ns]
        found == s.Ident = "v"
    IN  IF s.Ns # "pkg"
        THEN [e |-> e, Elems |-> s.Elems, nil |-> TRUE, kind |-> <<>>,
              errors |-> <<"namespace_not_exist">>]
        ELSE [e |-> [inPkg EXCEPT !.lookup = lookup], Elems |-> s.Elems,
              nil |-> ~found, kind |-> IF found THEN <<"int">> ELSE <<>>,
              errors |-> IF found THEN <<>> ELSE <<"ident_not_exist">>]

LiteralInit ==
    /\ \E prefix \in {<<>>, <<"int">>, <<"[]", "int">>} :
          evaluator = [prefix |-> prefix, lookup |-> "file"]
    /\ \/ \E elems \in SeqsUpTo(ElemExprs, MaxElems) :
             literal = [kind |-> "slice", Elems |-> elems, Ns |-> "", Ident |-> ""]
       \/ \E ns \in {"pkg", "std"}, ident \in {"v", "u"} :
             literal = [kind |-> "ns", Elems |-> <<>>, Ns |-> ns, Ident |-> ident]
    /\ atEntry = <<evaluator, literal>>
    /\ runs = <<>>
    /\ IdleBut({"lit"})

\* One evaluation of the expression; it is evaluated twice.
EvalLiteral ==
    /\ Len(runs) < 2
    /\ LET r == IF literal.kind = "slice" THEN eval_slice_expr(evaluator, literal)
                ELSE eval_ns_selection(evaluator, literal)
       IN  /\ evaluator' = r.e
           /\ literal' = [literal EXCEPT !.Elems = r.Elems]
           /\ runs' = Append(runs, [nil |-> r.nil, kind |-> r.kind, errors |-> r.errors])
    /\ UNCHANGED atEntry
    /\ Keep({"lit"})

SpecLiteral == LiteralInit /\ [][EvalLiteral]_vars

\* C29: an evaluation leaves e.prefix, e.lookup and the elements of the
\* slice literal as they were at entry, on the paths that end in a
\* diagnostic too, and the second evaluation of the expression gives the kind
\* and the diagnostics of the first.
C29_EvaluatorAndTreeKept ==
    runs # <<>> =>
        /\ evaluator = atEntry[1]
        /\ literal = atEntry[2]
        /\ Len(runs) = 2 => runs[2] = runs[1]

\* ========================================================================
\* FUNCTION INSTANCES (src/unnamed/part_004, Fn)
\* ========================================================================
\* An FnIns is [addr, Generics]: addr tells one instance from another, and
\* Generics are the types its generics stand for, written as To_str writes
\* them. A function has up to MaxGenerics generics and up to MaxCalls calls
\* are made on it.
MaxGenerics == 2

MaxCalls == 3

FnIns(addr, generics) == [addr |-> addr, Generics |-> generics]

\* f.instance_force(): a new instance, at the address addr.
instance_force(f, addr) == FnIns(addr, <<>>)

\* f.instance()
instance(f, addr) ==
    IF f.Generics = 0 /\ Len(f.Combines) = 1 THEN f.Combines[1]
    ELSE instance_force(f, addr)

\* The loops of append_instance from the instance at index a of f.Combines
\* and its generic at index i on: f.Combines after them.
RECURSIVE appendFrom(_, _, _, _)
appendFrom(f, ins, a, i) ==
    IF a > Len(f.Combines) THEN f.Combines
    ELSE IF i > Len(f.Combines[a].Generics) THEN appendFrom(f, ins, a + 1, 1)
    ELSE IF f.Combines[a].Generics[i] # ins.Generics[i] THEN Append(f.Combines, ins)
    ELSE appendFrom(f, ins, a, i + 1)

\* f.append_instance(ins): f after it.
append_instance(f, ins) ==
    IF f.Generics = 0 /\ Len(f.Combines) = 1 THEN f
    ELSE [f EXCEPT !.Combines = appendFrom(f, ins, 1, 1)]

FnInit ==
    /\ function \in [Generics : 0..MaxGenerics, Combines : {<<>>}]
    /\ history = <<>>
    /\ IdleBut({"fn"})

\* f.append_instance(ins) with an instance for some types of the generics.
AppendInstance ==
    /\ Len(history) < MaxCalls
    /\ \E generics \in [1..function.Generics -> {"int", "str"}] :
          LET ins == FnIns(Len(history) + 1, generics)
          IN  /\ function' = append_instance(function, ins)
              /\ history' = Append(history, [op |-> "append_instance", ins |-> ins])
    /\ Keep({"fn"})

\* f.instance()
Instance ==
    /\ Len(history) < MaxCalls
    /\ history' = Append(history, [op |-> "instance",
                                   ins |-> instance(function, Len(history) + 1)])
    /\ UNCHANGED function
    /\ Keep({"fn"})

SpecFn == FnInit /\ [][AppendInstance \/ Instance]_vars

\* C30: after append_instance(ins) the function has an instance with the
\* generic types of ins, it never has two instances with the same generic
\* types, and a function without generics that has one instance returns that
\* instance from instance().
C30_Instances ==
    LET last == history[Len(history)]
        Combines == function.Combines
    IN  /\ (history # <<>> /\ last.op = "append_instance") =>
               \E a \in 1..Len(Combines) : Combines[a].Generics = last.ins.Generics
        /\ \A a, b \in 1..Len(Combines) :
               Combines[a].Generics = Combines[b].Generics => a = b
        /\ (history # <<>> /\ last.op = "instance"
                /\ function.Generics = 0 /\ Len(Combines) = 1) =>
               last.ins = Combines[1]

====
